---- MODULE Spec2Model ----
(***************************************************************************)
(* Model of the SIOP / OID4VP authentication response pipeline of          *)
(* src/src/rp/Builder.ts: AuthenticationResponse.verifyJWT, verifyVPs,     *)
(* createJWTFromVerifiedRequest and the assertions they call.              *)
(*                                                                         *)
(* JavaScript values are modelled as follows.  An optional string is a     *)
(* string, with the value undefined for a missing member; a string is      *)
(* truthy when it is neither undefined nor empty.  An optional number is a *)
(* set of at most one integer, {} being undefined.  Time is counted in     *)
(* whole seconds (Date.now() / 1000).                                      *)
(***************************************************************************)
EXTENDS Integers, Sequences, FiniteSets, TLC

VARIABLES
    now,            \* the clock, Date.now() / 1000
    jwt,            \* verifyJWT: the token argument
    verifyOpts,     \* verifyJWT / verifyVPs: the verifyOpts argument
    pc,             \* verifyJWT: position of the call
    error,          \* verifyJWT: the error the call threw
    result,         \* verifyJWT: the record the call returned
    calls,          \* verifyJWT: capabilities invoked so far, in order
    vp_token,       \* verifyVPs: payload.vp_token
    vpc,            \* verifyVPs: position of the call
    vpError,        \* verifyVPs: the error the call threw
    matcherCalls,   \* number of invocations of validatePayloadsAgainstDefinitions
    revocationCalls,\* number of invocations of verifyRevocation
    tasks,          \* verifyVPs: the promises of the per-item callbacks of line 513
    verifiedJwt,    \* createJWTFromVerifiedRequest: the verifiedJwt argument
    responseOpts,   \* createJWTFromVerifiedRequest: the responseOpts argument
    bpc,            \* createJWTFromVerifiedRequest: position of the call
    buildError,     \* createJWTFromVerifiedRequest: the error the call threw
    idToken,        \* createJWTFromVerifiedRequest: the identity token (line 437)
    payload,        \* createJWTFromVerifiedRequest: the response payload (lines 438-439)
    response,       \* createJWTFromVerifiedRequest: the record the call returned
    signCalls,      \* number of invocations of signDidJwtPayload
    constructed,    \* Builder: whether newInstance has returned the builder
    supportedVersions, \* Builder.supportedVersions
    authorizationRequestPayload, \* Builder._authorizationRequestPayload
    requestObjectPayload, \* Builder._requestObjectPayload
    clientMetadata, \* Builder.clientMetadata
    eventEmitter,   \* Builder.eventEmitter
    sessionManager, \* Builder.sessionManager
    lastCall,       \* Builder: the method called last
    thrown,         \* Builder: the error the last call threw
    returned,       \* Builder: what the last getSupportedRequestVersion returned
    added,          \* Builder: the versions passed to the builder so far, in order
    rp              \* Builder.build: the RP returned

verifyVars == <<jwt, pc, error, result, calls>>
vpVars == <<vp_token, vpc, vpError, matcherCalls, revocationCalls, tasks>>
buildVars == <<verifiedJwt, responseOpts, bpc, buildError, idToken, payload, response,
               signCalls>>
builderVars == <<constructed, supportedVersions, authorizationRequestPayload,
                 requestObjectPayload, clientMetadata, eventEmitter, sessionManager,
                 lastCall, thrown, returned, added, rp>>
vars == <<now, verifyOpts, verifyVars, vpVars, buildVars, builderVars>>

\* ------------------------------------------------------------------ bounds

MaxTime == 2

\* ------------------------------------------------------------ JS values

undefined == "undefined"

Truthy(s) == s # undefined /\ s # ""

TruthyNumber(n) == n # {} /\ n # {0}

NumberOf(n) == CHOOSE x \in n : TRUE

\* ------------------------------------------------------------ constants

SIOPErrors == [
    BAD_PARAMS |-> "Wrong parameters provided.",
    ERROR_VERIFYING_SIGNATURE |-> "Error verifying the DID Auth Token signature.",
    NO_NONCE |-> "No nonce found in JWT payload",
    INVALID_AUDIENCE |-> "Audience is invalid. Should be a string value.",
    SIGNATURE_OBJECT_TYPE_NOT_SET |-> "Signature object type is not set.",
    VERIFY_BAD_PARAMS |-> "Verify bad parameters",
    ERROR_RETRIEVING_DID_DOCUMENT |-> "Error retrieving did document",
    NO_SELFISSUED_ISS |-> "The Response Token Issuer Claim (iss) MUST be https://self-isued.me",
    NO_JWT |-> "no JWT was supplied",
    EXPIRED |-> "EXPIRED",
    VERIFIABLE_PRESENTATION_VERIFICATION_FUNCTION_MISSING |->
        "VERIFIABLE_PRESENTATION_VERIFICATION_FUNCTION_MISSING",
    AUTH_REQUEST_EXPECTS_VP |-> "AUTH_REQUEST_EXPECTS_VP",
    AUTH_REQUEST_DOESNT_EXPECT_VP |-> "AUTH_REQUEST_DOESNT_EXPECT_VP",
    REQUEST_CLAIMS_PRESENTATION_DEFINITION_NOT_VALID |->
        "REQUEST_CLAIMS_PRESENTATION_DEFINITION_NOT_VALID" ]

ResponseIss == [ SELF_ISSUED_V2 |-> "https://self-issued.me/v2" ]

CheckLinkedDomain == [ NEVER |-> "never", IF_PRESENT |-> "if_present", ALWAYS |-> "always" ]

\* Errors of the capabilities that are not SIOPErrors members.
MalformedResponse == "MalformedResponse"
LinkedDomainFailure == "LinkedDomainFailure"
LinkedDomainPolicyMisconfigured == "LinkedDomainPolicyMisconfigured"

\* ------------------------------------------------------------ data

\* The claims of an identity token (IdToken / JWTPayload).
NoClaims == [ iss |-> undefined, aud |-> undefined, exp |-> {}, iat |-> {},
              auth_time |-> {}, nonce |-> undefined, sub |-> undefined,
              sub_jwk |-> undefined, definition_id |-> undefined,
              descriptor_map |-> <<>>, did |-> undefined ]

NoJwt == [ present |-> FALSE, wellFormed |-> FALSE, header |-> FALSE,
           payload |-> NoClaims, signatureValid |-> FALSE ]

\* verifyOpts.  claims says whether verifyOpts.claims is set and
\* presentationDefinition is claims.vpToken?.presentationDefinition;
\* revocationOpts says whether verification.revocationOpts is set, and the two
\* members after it are its members.
NoVerifyOpts == [ present |-> FALSE, verification |-> undefined,
                  checkLinkedDomain |-> undefined, verifyCallback |-> FALSE,
                  audience |-> undefined, presentationVerificationCallback |-> FALSE,
                  claims |-> FALSE, presentationDefinition |-> undefined,
                  revocationOpts |-> FALSE, revocationVerification |-> undefined,
                  revocationVerificationCallback |-> FALSE ]

\* payload.vp_token: undefined, one presentation payload, or an array of them.
NoVpToken == [ kind |-> "undefined", items |-> <<>> ]

NoResult == [ returned |-> FALSE, issuer |-> undefined, payload |-> NoClaims ]

\* --------------------------------------------------- verifyJWT, helpers

\* Lines 691-695.  "ok" or the error thrown.
assertValidVerifyOpts(opts) ==
    IF \/ ~opts.present
       \/ opts.verification = undefined
       \/ (opts.verification # "external" /\ opts.verification # "internal")
    THEN SIOPErrors.VERIFY_BAD_PARAMS
    ELSE "ok"

\* isExpired without the comparison with the clock: only a missing exp fails.
isExpired_noComparison(exp, t) == ~TruthyNumber(exp)

\* Lines 536-537: the expiry test on verPayload.exp.
isExpired(exp, t) == ~TruthyNumber(exp) \/ NumberOf(exp) < t

\* assertValidAudience with only one half of the presence test of line 542.
assertValidAudience_oneSided(aud, audience) ==
    IF Truthy(aud) /\ ~Truthy(audience)
    THEN SIOPErrors.BAD_PARAMS
    ELSE IF Truthy(audience) /\ audience # aud
    THEN SIOPErrors.INVALID_AUDIENCE
    ELSE "ok"

\* Lines 542-546: the audience test. "ok" or the error thrown.
assertValidAudience(aud, audience) ==
    IF (Truthy(aud) /\ ~Truthy(audience)) \/ (~Truthy(aud) /\ Truthy(audience))
    THEN SIOPErrors.BAD_PARAMS
    ELSE IF Truthy(audience) /\ audience # aud
    THEN SIOPErrors.INVALID_AUDIENCE
    ELSE "ok"

\* Lines 523-548.  hasPayload / hasVerPayload say which of opts.payload and
\* opts.verPayload the caller passed.  "ok" or the error thrown.
assertValidResponseJWT(header, hasPayload, pay, hasVerPayload, verPayload, audience, t) ==
    IF ~header
    THEN SIOPErrors.BAD_PARAMS
    ELSE IF hasPayload /\ pay.iss # ResponseIss.SELF_ISSUED_V2
    THEN SIOPErrors.NO_SELFISSUED_ISS
    ELSE IF ~hasVerPayload
    THEN "ok"
    ELSE IF ~Truthy(verPayload.nonce)
    THEN SIOPErrors.NO_NONCE
    ELSE IF isExpired(verPayload.exp, t)
    THEN SIOPErrors.EXPIRED
    ELSE assertValidAudience(verPayload.aud, audience)

\* parseJWT (./functions): the outcomes of decoding the compact token.
parseJWT(j) == IF j.wellFormed THEN {"ok"} ELSE {MalformedResponse}

\* verifyDidJWT (./functions): the outcomes of resolving the signer's DID and
\* verifying the signature against the expected audience.  Whether the
\* underlying library rejects an audience that differs is not fixed here.
verifyDidJWT(j, audience) ==
    IF ~j.signatureValid
    THEN {SIOPErrors.ERROR_VERIFYING_SIGNATURE, SIOPErrors.ERROR_RETRIEVING_DID_DOCUMENT}
    ELSE {"ok", SIOPErrors.ERROR_RETRIEVING_DID_DOCUMENT}
         \cup (IF assertValidAudience(j.payload.aud, audience) # "ok"
               THEN {SIOPErrors.ERROR_VERIFYING_SIGNATURE} ELSE {})

\* getIssuerDidFromPayload (./functions): the DID the token was issued by.
getIssuerDidFromPayload(pay) == pay.did

\* validateLinkedDomainWithDid (./functions): the outcomes of the linked-domain
\* capability under the given mode.
validateLinkedDomainWithDid(did, verifyCallback, mode) ==
    IF mode = CheckLinkedDomain.ALWAYS /\ ~verifyCallback
    THEN {LinkedDomainPolicyMisconfigured}
    ELSE {"ok", LinkedDomainFailure}

\* linkedDomainMode without the default of line 480-481: an unset policy
\* invokes nothing.
linkedDomainMode_noDefault(checkLinkedDomain) ==
    IF Truthy(checkLinkedDomain) /\ checkLinkedDomain # CheckLinkedDomain.NEVER
    THEN checkLinkedDomain
    ELSE undefined

\* Line 478-482: the mode the linked-domain capability is invoked with, or
\* undefined when it is not invoked.
linkedDomainMode(checkLinkedDomain) ==
    IF Truthy(checkLinkedDomain) /\ checkLinkedDomain # CheckLinkedDomain.NEVER
    THEN checkLinkedDomain
    ELSE IF ~Truthy(checkLinkedDomain)
    THEN CheckLinkedDomain.IF_PRESENT
    ELSE undefined

\* --------------------------------------------------- verifyJWT, the call

Throw(e) == pc' = "Rejected" /\ error' = e

\* Line 465-467.
verifyJWT_Received ==
    /\ pc = "Received"
    /\ IF ~jwt.present
       THEN Throw(SIOPErrors.NO_JWT)
       ELSE pc' = "TokenPresent" /\ UNCHANGED error
    /\ UNCHANGED <<builderVars, buildVars, now, jwt, verifyOpts, result, calls, vpVars>>

\* Line 468.
verifyJWT_VerifyOpts ==
    /\ pc = "TokenPresent"
    /\ LET e == assertValidVerifyOpts(verifyOpts) IN
       IF e # "ok" THEN Throw(e) ELSE pc' = "OptsValid" /\ UNCHANGED error
    /\ UNCHANGED <<builderVars, buildVars, now, jwt, verifyOpts, result, calls, vpVars>>

\* Line 470.
verifyJWT_Parse ==
    /\ pc = "OptsValid"
    /\ calls' = Append(calls, [fn |-> "parseJWT", mode |-> undefined])
    /\ \E r \in parseJWT(jwt) :
          IF r # "ok" THEN Throw(r) ELSE pc' = "ClaimsDecoded" /\ UNCHANGED error
    /\ UNCHANGED <<builderVars, buildVars, now, jwt, verifyOpts, result, vpVars>>

\* verifyJWT_Issuer without the assertion of line 471.
verifyJWT_Issuer_skipped ==
    /\ pc = "ClaimsDecoded"
    /\ pc' = "IssuerAccepted"
    /\ UNCHANGED <<builderVars, buildVars, now, jwt, verifyOpts, error, result, calls, vpVars>>

\* Line 471.
verifyJWT_Issuer ==
    /\ pc = "ClaimsDecoded"
    /\ LET e == assertValidResponseJWT(jwt.header, TRUE, jwt.payload, FALSE, NoClaims,
                                       undefined, now) IN
       IF e # "ok" THEN Throw(e) ELSE pc' = "IssuerAccepted" /\ UNCHANGED error
    /\ UNCHANGED <<builderVars, buildVars, now, jwt, verifyOpts, result, calls, vpVars>>

\* verifyJWT_Signature with the promise of verifyDidJWT not awaited: its
\* rejection is recorded and the call goes on.
verifyJWT_Signature_unawaited ==
    /\ pc = "IssuerAccepted"
    /\ calls' = Append(calls, [fn |-> "verifyDidJWT", mode |-> undefined])
    /\ \E r \in verifyDidJWT(jwt, verifyOpts.audience) :
          /\ pc' = "SignatureVerified"
          /\ error' = IF r # "ok" THEN r ELSE error
    /\ UNCHANGED <<builderVars, buildVars, now, jwt, verifyOpts, result, vpVars>>

\* Lines 473-475.
verifyJWT_Signature ==
    /\ pc = "IssuerAccepted"
    /\ calls' = Append(calls, [fn |-> "verifyDidJWT", mode |-> undefined])
    /\ \E r \in verifyDidJWT(jwt, verifyOpts.audience) :
          IF r # "ok" THEN Throw(r) ELSE pc' = "SignatureVerified" /\ UNCHANGED error
    /\ UNCHANGED <<builderVars, buildVars, now, jwt, verifyOpts, result, vpVars>>

\* Lines 477-482.
verifyJWT_LinkedDomain ==
    /\ pc = "SignatureVerified"
    /\ LET mode == linkedDomainMode(verifyOpts.checkLinkedDomain) IN
       IF mode = undefined
       THEN pc' = "LinkedDomainChecked" /\ UNCHANGED <<error, calls>>
       ELSE /\ calls' = Append(calls, [fn |-> "validateLinkedDomainWithDid", mode |-> mode])
            /\ \E r \in validateLinkedDomainWithDid(getIssuerDidFromPayload(jwt.payload),
                                                    verifyOpts.verifyCallback, mode) :
                  IF r # "ok" THEN Throw(r)
                  ELSE pc' = "LinkedDomainChecked" /\ UNCHANGED error
    /\ UNCHANGED <<builderVars, buildVars, now, jwt, verifyOpts, result, vpVars>>

\* Lines 483-484.
verifyJWT_Claims ==
    /\ pc = "LinkedDomainChecked"
    /\ LET e == assertValidResponseJWT(jwt.header, FALSE, NoClaims, TRUE, jwt.payload,
                                       verifyOpts.audience, now) IN
       IF e # "ok" THEN Throw(e) ELSE pc' = "ClaimsValidated" /\ UNCHANGED error
    /\ UNCHANGED <<builderVars, buildVars, now, jwt, verifyOpts, result, calls, vpVars>>

\* Lines 485-499.
verifyJWT_Return ==
    /\ pc = "ClaimsValidated"
    /\ IF ~verifyOpts.presentationVerificationCallback
       THEN Throw(SIOPErrors.VERIFIABLE_PRESENTATION_VERIFICATION_FUNCTION_MISSING)
            /\ UNCHANGED result
       ELSE /\ pc' = "Verified"
            /\ result' = [ returned |-> TRUE,
                           issuer |-> getIssuerDidFromPayload(jwt.payload),
                           payload |-> jwt.payload ]
            /\ UNCHANGED error
    /\ UNCHANGED <<builderVars, buildVars, now, jwt, verifyOpts, calls, vpVars>>

verifyJWT ==
    \/ verifyJWT_Received
    \/ verifyJWT_VerifyOpts
    \/ verifyJWT_Parse
    \/ verifyJWT_Issuer
    \/ verifyJWT_Signature
    \/ verifyJWT_LinkedDomain
    \/ verifyJWT_Claims
    \/ verifyJWT_Return

\* The clock.  A synchronous stretch of verifyJWT takes no time: the clock
\* advances while no call runs and while the call is suspended in one of its
\* awaits (lines 473, 479, 481).
Tick ==
    /\ now < MaxTime
    /\ pc \in {"idle", "IssuerAccepted", "SignatureVerified", "Verified", "Rejected"}
    /\ now' = now + 1
    /\ UNCHANGED <<builderVars, verifyOpts, verifyVars, vpVars, buildVars>>

\* ------------------------------------------------ verifyJWT on any token

Audiences == {undefined, "", "https://rp.example/cb", "https://other.example/cb"}

HolderDid == "did:example:holder"

TokenClaims ==
    [ iss : {ResponseIss.SELF_ISSUED_V2, "did:example:other"},
      aud : Audiences,
      exp : {{}} \cup {{t} : t \in 0..MaxTime},
      iat : {{0}},
      auth_time : {{0}},
      nonce : {undefined, "nonce-1"},
      sub : {HolderDid},
      sub_jwk : {undefined},
      definition_id : {undefined},
      descriptor_map : {<<>>},
      did : {HolderDid} ]

Tokens ==
    {NoJwt,
     [NoJwt EXCEPT !.present = TRUE],
     [NoJwt EXCEPT !.present = TRUE, !.wellFormed = TRUE]}
    \cup [ present : {TRUE}, wellFormed : {TRUE}, header : {TRUE},
           payload : TokenClaims, signatureValid : BOOLEAN ]

VerifyOptions ==
    {NoVerifyOpts,
     [NoVerifyOpts EXCEPT !.present = TRUE],
     [NoVerifyOpts EXCEPT !.present = TRUE, !.verification = "other"]}
    \cup [ present : {TRUE}, verification : {"internal", "external"},
           checkLinkedDomain : {undefined, CheckLinkedDomain.NEVER,
                                CheckLinkedDomain.IF_PRESENT, CheckLinkedDomain.ALWAYS},
           verifyCallback : BOOLEAN,
           audience : Audiences,
           presentationVerificationCallback : BOOLEAN,
           claims : {FALSE}, presentationDefinition : {undefined},
           revocationOpts : {FALSE}, revocationVerification : {undefined},
           revocationVerificationCallback : {FALSE} ]

\* A caller invokes verifyJWT(jwt, verifyOpts).
verifyJWT_Call ==
    /\ pc = "idle"
    /\ \E j \in Tokens, o \in VerifyOptions :
          /\ jwt' = j
          /\ verifyOpts' = o
    /\ pc' = "Received"
    /\ UNCHANGED <<builderVars, buildVars, now, error, result, calls, vpVars>>

\* ------------------------------------------------------ verifyVPs, helpers

RevocationVerification == [ NEVER |-> "never", IF_PRESENT |-> "if_present", ALWAYS |-> "always" ]

PresentationLocation == [ VP_TOKEN |-> "vp_token", ID_TOKEN |-> "id_token" ]

\* Errors of the capabilities that are not SIOPErrors members.
DefinitionNotSatisfied == "DefinitionNotSatisfied"
RevocationCheckFailed == "RevocationCheckFailed"
RevocationPolicyMisconfigured == "RevocationPolicyMisconfigured"
TypeErrorClaims == "TypeError: Cannot read properties of undefined (reading 'vpToken')"
TypeErrorVerification == "TypeError: Cannot read properties of undefined (reading 'verification')"
TypeErrorRevocationOpts ==
    "TypeError: Cannot read properties of undefined (reading 'revocationVerificationCallback')"

hasDefinition(a) == a.definition
hasPresentation(vp) == vp.presentation

\* PresentationExchange.assertValidPresentationDefinitionWithLocations: the
\* outcomes of validating the definitions of the list.  A definition that is
\* set is a valid one; what the validator does with an entry whose definition
\* is undefined is not fixed here.
assertValidPresentationDefinitionWithLocations(definitions) ==
    IF definitions.defined /\ Len(SelectSeq(definitions.list, hasDefinition)) # Len(definitions.list)
    THEN {"ok", SIOPErrors.REQUEST_CLAIMS_PRESENTATION_DEFINITION_NOT_VALID}
    ELSE {"ok"}

\* Lines 709-722: presentationPayloads.
presentationPayloadsOf(vps) ==
    IF vps.kind = "array" /\ Len(vps.items) > 0
    THEN vps.items
    ELSE IF vps.kind = "single"
    THEN vps.items
    ELSE <<>>

\* Lines 724-737, after the definitions were found valid: the error thrown, or
\* "match" when validatePayloadsAgainstDefinitions is called, or "return".
\* Line 726 reads (presentationPayloads || presentationPayloads.length > 0),
\* and an array is truthy.
checkPresentationCounts(definitions, presentationPayloads) ==
    IF definitions.defined /\ Len(definitions.list) # 0 /\ Len(presentationPayloads) = 0
    THEN SIOPErrors.AUTH_REQUEST_EXPECTS_VP
    ELSE IF (~definitions.defined \/ Len(definitions.list) = 0)
            /\ (TRUE \/ Len(presentationPayloads) > 0)
    THEN SIOPErrors.AUTH_REQUEST_DOESNT_EXPECT_VP
    ELSE IF definitions.defined /\ Len(definitions.list) # Len(presentationPayloads)
    THEN SIOPErrors.AUTH_REQUEST_EXPECTS_VP
    ELSE IF definitions.defined
    THEN "match"
    ELSE "return"

\* Lines 697-738 up to the await of line 731: the set of outcomes, each the
\* error thrown, "return" (the function returns without calling the matcher)
\* or "match" (validatePayloadsAgainstDefinitions is called).
assertValidVerifiablePresentations(definitions, vps) ==
    IF /\ (~definitions.defined \/ Len(SelectSeq(definitions.list, hasDefinition)) = 0)
       /\ (vps.kind = "undefined"
             \/ (vps.kind = "array" /\ Len(SelectSeq(vps.items, hasPresentation)) = 0))
    THEN {"return"}
    ELSE { IF v # "ok" THEN v
           ELSE checkPresentationCounts(definitions, presentationPayloadsOf(vps)) :
           v \in assertValidPresentationDefinitionWithLocations(definitions) }

\* PresentationExchange.validatePayloadsAgainstDefinitions: the outcomes of
\* the constraint-matching capability.
validatePayloadsAgainstDefinitions(definitions, presentationPayloads) ==
    {"ok", DefinitionNotSatisfied}

\* revocationVerificationOf that ignores the configured mode.
revocationVerificationOf_ignored(opts) == RevocationVerification.IF_PRESENT

\* Lines 508-510.
revocationVerificationOf(opts) ==
    IF opts.revocationOpts
    THEN opts.revocationVerification
    ELSE RevocationVerification.IF_PRESENT

\* verifyRevocation (./functions): the outcomes of the revocation check of
\* one presentation under the given mode.  vp is <<>> when no presentation
\* was passed, and <<p>> for presentation p.
verifyRevocation(vp, callback, mode) ==
    IF mode = RevocationVerification.NEVER
    THEN {"ok"}
    ELSE IF mode = RevocationVerification.ALWAYS /\ ~callback
    THEN {RevocationPolicyMisconfigured}
    ELSE IF vp = <<>>
    THEN {"ok"}
    ELSE IF vp[1].status = "revoked"
    THEN (IF callback THEN {RevocationCheckFailed}
          ELSE {"ok", RevocationPolicyMisconfigured})
    ELSE IF vp[1].status = "valid"
    THEN (IF callback THEN {"ok"} ELSE {"ok", RevocationPolicyMisconfigured})
    ELSE IF mode = RevocationVerification.ALWAYS
    THEN {"ok", RevocationCheckFailed}
    ELSE {"ok"}

\* ------------------------------------------------------ verifyVPs, the call

ThrowVPs(e) == vpc' = "Rejected" /\ vpError' = e

\* Line 503: the definitions argument.
definitionsOf(opts) ==
    [ defined |-> TRUE,
      list |-> << [ definition |-> (opts.present /\ Truthy(opts.presentationDefinition)),
                    location |-> PresentationLocation.VP_TOKEN ] >> ]

\* Lines 502-506, up to the await of line 731.
verifyVPs_Presentations ==
    /\ vpc = "Called"
    /\ IF verifyOpts.present /\ ~verifyOpts.claims
       THEN ThrowVPs(TypeErrorClaims) /\ UNCHANGED matcherCalls
       ELSE \E r \in assertValidVerifiablePresentations(definitionsOf(verifyOpts), vp_token) :
               IF r = "return"
               THEN vpc' = "PresentationsValidated" /\ UNCHANGED <<vpError, matcherCalls>>
               ELSE IF r = "match"
               THEN /\ vpc' = "Matching"
                    /\ matcherCalls' = matcherCalls + 1
                    /\ UNCHANGED vpError
               ELSE ThrowVPs(r) /\ UNCHANGED matcherCalls
    /\ UNCHANGED <<builderVars, buildVars, now, verifyOpts, verifyVars, vp_token, revocationCalls, tasks>>

\* Lines 731-737: validatePayloadsAgainstDefinitions settles.
verifyVPs_Matched ==
    /\ vpc = "Matching"
    /\ \E r \in validatePayloadsAgainstDefinitions(definitionsOf(verifyOpts),
                                                   presentationPayloadsOf(vp_token)) :
          IF r = "ok"
          THEN vpc' = "PresentationsValidated" /\ UNCHANGED vpError
          ELSE ThrowVPs(r)
    /\ UNCHANGED <<builderVars, buildVars, now, verifyOpts, verifyVars, vp_token, matcherCalls, revocationCalls, tasks>>

\* Line 514: the promise of the callback run for element p.  The callback
\* reads verification.revocationOpts.revocationVerificationCallback before it
\* calls verifyRevocation.
revocationTask(opts, p) ==
    IF ~opts.revocationOpts THEN TypeErrorRevocationOpts ELSE "pending"

\* Lines 508-519, up to the await of line 517.
verifyVPs_Revocation ==
    /\ vpc = "PresentationsValidated"
    /\ IF ~verifyOpts.present \/ verifyOpts.verification = undefined
       THEN ThrowVPs(TypeErrorVerification) /\ UNCHANGED <<revocationCalls, tasks>>
       ELSE LET revocationVerification == revocationVerificationOf(verifyOpts) IN
            IF revocationVerification = RevocationVerification.NEVER
            THEN vpc' = "VPsVerified" /\ UNCHANGED <<vpError, revocationCalls, tasks>>
            ELSE IF vp_token.kind = "array"
            THEN /\ tasks' = [ i \in DOMAIN vp_token.items |->
                                 revocationTask(verifyOpts, vp_token.items[i]) ]
                 /\ revocationCalls' = revocationCalls
                        + (IF verifyOpts.revocationOpts THEN Len(vp_token.items) ELSE 0)
                 /\ vpc' = "VPsVerified"
                 /\ UNCHANGED vpError
            ELSE IF ~verifyOpts.revocationOpts
            THEN ThrowVPs(TypeErrorRevocationOpts) /\ UNCHANGED <<revocationCalls, tasks>>
            ELSE /\ vpc' = "Revoking"
                 /\ revocationCalls' = revocationCalls + 1
                 /\ UNCHANGED <<vpError, tasks>>
    /\ UNCHANGED <<builderVars, buildVars, now, verifyOpts, verifyVars, vp_token, matcherCalls>>

\* Line 517: verifyRevocation of the single vp_token settles.
verifyVPs_Revoked ==
    /\ vpc = "Revoking"
    /\ \E r \in verifyRevocation(vp_token.items, verifyOpts.revocationVerificationCallback,
                                 revocationVerificationOf(verifyOpts)) :
          IF r = "ok" THEN vpc' = "VPsVerified" /\ UNCHANGED vpError ELSE ThrowVPs(r)
    /\ UNCHANGED <<builderVars, buildVars, now, verifyOpts, verifyVars, vp_token, matcherCalls, revocationCalls, tasks>>

\* Line 514: verifyRevocation of element i of the array settles.  Nothing
\* awaits the promise: forEach drops what its callback returns.
revocationTaskSettles(i) ==
    /\ tasks[i] = "pending"
    /\ \E r \in verifyRevocation(<<vp_token.items[i]>>,
                                 verifyOpts.revocationVerificationCallback,
                                 revocationVerificationOf(verifyOpts)) :
          tasks' = [tasks EXCEPT ![i] = r]
    /\ UNCHANGED <<builderVars, buildVars, now, verifyOpts, verifyVars, vp_token, vpc, vpError, matcherCalls,
                   revocationCalls>>

verifyVPs ==
    \/ verifyVPs_Presentations
    \/ verifyVPs_Matched
    \/ verifyVPs_Revocation
    \/ verifyVPs_Revoked
    \/ \E i \in DOMAIN tasks : revocationTaskSettles(i)

\* ------------------------------------------------ verifyVPs on any payload

MaxVps == 2

Presentations == [ presentation : BOOLEAN, status : {"none", "valid", "revoked"} ]

SeqsUpTo(S, n) == UNION { [1..k -> S] : k \in 0..n }

VpTokens ==
    {NoVpToken}
    \cup { [ kind |-> "single", items |-> <<p>> ] : p \in Presentations }
    \cup { [ kind |-> "array", items |-> s ] : s \in SeqsUpTo(Presentations, MaxVps) }

VpVerifyOptions ==
    {NoVerifyOpts}
    \cup [ present : {TRUE}, verification : {undefined, "internal"},
           checkLinkedDomain : {undefined}, verifyCallback : {FALSE},
           audience : {undefined},
           presentationVerificationCallback : {TRUE},
           claims : {TRUE}, presentationDefinition : {undefined, "pd-1"},
           revocationOpts : {FALSE}, revocationVerification : {undefined},
           revocationVerificationCallback : {FALSE} ]
    \cup [ present : {TRUE}, verification : {"internal"},
           checkLinkedDomain : {undefined}, verifyCallback : {FALSE},
           audience : {undefined},
           presentationVerificationCallback : {TRUE},
           claims : BOOLEAN, presentationDefinition : {undefined, "pd-1"},
           revocationOpts : {TRUE},
           revocationVerification : {RevocationVerification.NEVER,
                                     RevocationVerification.IF_PRESENT,
                                     RevocationVerification.ALWAYS},
           revocationVerificationCallback : BOOLEAN ]

\* A caller invokes verifyVPs(payload, verifyOpts).
verifyVPs_Call ==
    /\ vpc = "idle"
    /\ \E v \in VpTokens, o \in VpVerifyOptions :
          /\ vp_token' = v
          /\ verifyOpts' = o
    /\ vpc' = "Called"
    /\ UNCHANGED <<builderVars, buildVars, now, verifyVars, vpError, matcherCalls, revocationCalls, tasks>>

\* ------------------------------------------ createJWTFromVerifiedRequest

SubjectSyntaxTypesSupportedValues ==
    [ DID |-> "did", JWK_THUMBPRINT |-> "urn:ietf:params:oauth:jwk-thumbprint" ]

VerifiablePresentationTypeFormat == [ JWT_VP |-> "jwt_vp", LDP_VP |-> "ldp_vp" ]

DefaultExpiresIn == 600

TypeErrorPresentationDefinitions == "TypeError: Cannot read properties of undefined (reading '0')"
TypeErrorSupportedDidMethods == "TypeError: Cannot read properties of undefined (reading 'indexOf')"
TypeErrorDefinition == "TypeError: Cannot read properties of undefined (reading 'id')"
TypeErrorLocation == "TypeError: Cannot read properties of undefined (reading 'location')"
SigningFailed == "SigningFailed"

\* A JavaScript array that may be undefined.
UndefinedList == [ defined |-> FALSE, list |-> <<>> ]
ListOf(s) == [ defined |-> TRUE, list |-> s ]

\* verifiedJwt: the verified authentication request.
NoVerifiedJwt ==
    [ present |-> FALSE, jwt |-> FALSE, redirect_uri |-> undefined, nonce |-> undefined,
      state |-> undefined, subject_syntax_types_supported |-> UndefinedList,
      presentationDefinitions |-> UndefinedList ]

\* responseOpts.  An element of vp is a presentation with its location;
\* isString says whether its presentation member is a compact string.
NoResponseOpts ==
    [ present |-> FALSE, signatureType |-> undefined, did |-> undefined,
      state |-> undefined, nonce |-> undefined, expiresIn |-> {}, vp |-> UndefinedList,
      presentationVerificationCallback |-> FALSE ]

\* The outer response payload.
NoPayload ==
    [ state |-> undefined, nonce |-> undefined, expires_in |-> {}, vp_token |-> NoVpToken,
      id_token |-> NoJwt ]

NoResponse ==
    [ returned |-> FALSE, jwt |-> NoJwt, state |-> undefined, nonce |-> undefined ]

\* assertValidResponseOpts without the test of the holder DID.
assertValidResponseOpts_noDid(opts) ==
    IF ~opts.present \/ opts.signatureType = undefined
    THEN SIOPErrors.BAD_PARAMS
    ELSE IF opts.signatureType \notin {"internal", "external", "supplied"}
    THEN SIOPErrors.SIGNATURE_OBJECT_TYPE_NOT_SET
    ELSE "ok"

\* Lines 683-689.  "ok" or the error thrown.
assertValidResponseOpts(opts) ==
    IF ~opts.present \/ opts.signatureType = undefined \/ ~Truthy(opts.did)
    THEN SIOPErrors.BAD_PARAMS
    ELSE IF opts.signatureType \notin {"internal", "external", "supplied"}
    THEN SIOPErrors.SIGNATURE_OBJECT_TYPE_NOT_SET
    ELSE "ok"

\* getState (./functions): the states it may return, the given one or a
\* freshly generated one.
getState(state) == IF Truthy(state) THEN {state} ELSE {"state-gen-1", "state-gen-2"}

\* getNonce (./functions): a nonce derived from the state.
getNonce(state) ==
    CASE state = "state-req" -> "nonce-of-state-req"
      [] state = "state-opts" -> "nonce-of-state-opts"
      [] state = "state-gen-1" -> "nonce-of-state-gen-1"
      [] state = "state-gen-2" -> "nonce-of-state-gen-2"
      [] OTHER -> "nonce-of-state"

\* sst.includes('did'), line 603, on the subject syntax types of the model.
includesDid(sst) == sst \in {"did", "did:ethr", "did:key"}

\* ObjectUtils.isString of an element of responseOpts.vp (line 623) or of
\* responseOpts.vp itself (line 670): neither is a string.
isStringOfObject(x) == FALSE

\* Lines 550-567.  The error thrown, or "ok" with the thumbprint and the JWK.
createThumbprintAndJWK(resOpts) ==
    IF resOpts.signatureType = "internal"
    THEN [ error |-> "ok", thumbprint |-> "thumbprint-of-key", subJwk |-> "jwk-of-key" ]
    ELSE IF resOpts.signatureType = "supplied"
    THEN [ error |-> "ok", thumbprint |-> undefined, subJwk |-> undefined ]
    ELSE [ error |-> SIOPErrors.SIGNATURE_OBJECT_TYPE_NOT_SET,
           thumbprint |-> undefined, subJwk |-> undefined ]

\* Lines 605-606 and 646: the state, given what getState returned.
stateOf(resOpts, generated) == IF Truthy(resOpts.state) THEN resOpts.state ELSE generated

\* Line 606.
nonceOf(request, resOpts, state) ==
    IF Truthy(request.nonce) THEN request.nonce
    ELSE IF Truthy(resOpts.nonce) THEN resOpts.nonce
    ELSE getNonce(state)

\* Line 611: resOpts.expiresIn || 600.
expiresInOf(resOpts) ==
    IF TruthyNumber(resOpts.expiresIn) THEN NumberOf(resOpts.expiresIn) ELSE DefaultExpiresIn

\* Lines 620-626.
descriptorMapOf(resOpts) ==
    << [ format |-> IF resOpts.vp.defined /\ Len(resOpts.vp.list) > 0
                       /\ isStringOfObject(resOpts.vp.list[1])
                    THEN VerifiablePresentationTypeFormat.JWT_VP
                    ELSE VerifiablePresentationTypeFormat.LDP_VP,
         path |-> "$" ] >>

\* Lines 597-636, with the clock at t and getState returning generated.  The
\* error thrown, or "ok" with the identity token.
createSIOPIDToken(request, resOpts, t, generated) ==
    LET supportedDidMethods ==
            IF request.subject_syntax_types_supported.defined
            THEN ListOf(SelectSeq(request.subject_syntax_types_supported.list, includesDid))
            ELSE UndefinedList
        state == stateOf(resOpts, generated)
        token ==
            [ NoClaims EXCEPT
                !.iss = ResponseIss.SELF_ISSUED_V2,
                !.aud = request.redirect_uri,
                !.iat = {t},
                !.exp = {t + expiresInOf(resOpts)},
                !.sub = resOpts.did,
                !.auth_time = {t},
                !.nonce = nonceOf(request, resOpts, state),
                !.definition_id =
                    IF Len(request.presentationDefinitions.list) > 0
                       /\ request.presentationDefinitions.list[1].definition
                    THEN "pd-1" ELSE undefined,
                !.descriptor_map = descriptorMapOf(resOpts) ]
        thumb == createThumbprintAndJWK(resOpts)
        fail(e) == [ error |-> e, idToken |-> NoClaims ]
    IN
    IF assertValidResponseOpts(resOpts) # "ok"
    THEN fail(assertValidResponseOpts(resOpts))
    ELSE IF ~request.present \/ ~request.jwt
    THEN fail(SIOPErrors.VERIFY_BAD_PARAMS)
    ELSE IF ~request.presentationDefinitions.defined
    THEN fail(TypeErrorPresentationDefinitions)
    ELSE IF Len(request.presentationDefinitions.list) > 0
            /\ ~request.presentationDefinitions.list[1].definition
    THEN fail(TypeErrorDefinition)
    ELSE IF ~supportedDidMethods.defined
    THEN fail(TypeErrorSupportedDidMethods)
    ELSE IF (\E i \in DOMAIN supportedDidMethods.list :
                supportedDidMethods.list[i] = SubjectSyntaxTypesSupportedValues.JWK_THUMBPRINT)
            /\ ~Truthy(resOpts.did)
    THEN (IF thumb.error # "ok" THEN fail(thumb.error)
          ELSE [ error |-> "ok",
                 idToken |-> [ token EXCEPT !.sub_jwk = thumb.subJwk,
                                              !.sub = thumb.thumbprint ] ])
    ELSE [ error |-> "ok", idToken |-> token ]

isIdTokenLocation(vp) == vp.location = PresentationLocation.ID_TOKEN
isVpTokenLocation(vp) == vp.location = PresentationLocation.VP_TOKEN

\* An element of responseOpts.vp as an element of vp_token.
asPayload(vp) == [ presentation |-> TRUE, status |-> vp.status ]

\* Lines 662-667: what is pushed for an element when several presentations
\* go to the identity token, { presentation } for a compact string and the
\* bare presentation, which has no presentation member, otherwise.
asPushed(vp) == [ presentation |-> vp.isString, status |-> vp.status ]

\* Lines 569-595.  The error thrown, or "ok" with vp_token.
extractPresentations(resOpts) ==
    LET vp_tokens ==
            IF resOpts.vp.defined /\ Len(resOpts.vp.list) > 0
            THEN ListOf(SelectSeq(resOpts.vp.list, isVpTokenLocation))
            ELSE UndefinedList
    IN
    IF vp_tokens.defined /\ Len(vp_tokens.list) = 1
    THEN [ error |-> "ok",
           vp_token |-> [ kind |-> "single", items |-> <<asPayload(vp_tokens.list[1])>> ] ]
    ELSE IF vp_tokens.defined /\ Len(vp_tokens.list) > 1
    THEN [ error |-> SIOPErrors.REQUEST_CLAIMS_PRESENTATION_DEFINITION_NOT_VALID,
           vp_token |-> NoVpToken ]
    ELSE [ error |-> "ok", vp_token |-> NoVpToken ]

\* Lines 656-679: payload.vp_token, given the vp_token of extractPresentations.
vpTokenOf(resOpts, extracted) ==
    IF resOpts.vp.defined /\ isIdTokenLocation(resOpts.vp.list[1])
    THEN (IF Len(resOpts.vp.list) > 1
          THEN [ kind |-> "array",
                 items |-> [ i \in DOMAIN resOpts.vp.list |-> asPushed(resOpts.vp.list[i]) ] ]
          ELSE [ kind |-> "array",
                 items |-> [ i \in DOMAIN resOpts.vp.list |-> asPayload(resOpts.vp.list[i]) ] ])
    ELSE extracted

\* Lines 638-681, with getState returning generated.  The error thrown, or
\* "ok" with the payload.
createSIOPResponsePayload(request, resOpts, generated) ==
    LET extracted == extractPresentations(resOpts)
        fail(e) == [ error |-> e, payload |-> NoPayload ]
    IN
    IF assertValidResponseOpts(resOpts) # "ok"
    THEN fail(assertValidResponseOpts(resOpts))
    ELSE IF ~request.present \/ ~request.jwt
    THEN fail(SIOPErrors.VERIFY_BAD_PARAMS)
    ELSE IF extracted.error # "ok"
    THEN fail(extracted.error)
    ELSE IF resOpts.vp.defined /\ Len(resOpts.vp.list) = 0
    THEN fail(TypeErrorLocation)
    ELSE [ error |-> "ok",
           payload |-> [ NoPayload EXCEPT
                           !.expires_in = resOpts.expiresIn,
                           !.state = stateOf(resOpts, generated),
                           !.vp_token = vpTokenOf(resOpts, extracted.vp_token) ] ]

\* signDidJwtPayload (./functions): the outcomes of signing the identity
\* token with the signature material of the options, the compact token signed
\* by the DID of the options or an error of the signer.
signDidJwtPayload(token, resOpts) ==
    { [ error |-> "ok",
        jwt |-> [ present |-> TRUE, wellFormed |-> TRUE, header |-> TRUE,
                  payload |-> [ token EXCEPT !.did = resOpts.did ],
                  signatureValid |-> TRUE ] ] }
    \cup (IF resOpts.signatureType = "internal" THEN {}
          ELSE { [ error |-> SigningFailed, jwt |-> NoJwt ] })

ThrowBuild(e) == bpc' = "Rejected" /\ buildError' = e

\* Lines 437-439.
build_Sign ==
    /\ bpc = "Called"
    /\ \E g1 \in getState(verifiedJwt.state), g2 \in getState(verifiedJwt.state) :
          LET tok == createSIOPIDToken(verifiedJwt, responseOpts, now, g1)
              pay == createSIOPResponsePayload(verifiedJwt, responseOpts, g2)
          IN
          IF tok.error # "ok"
          THEN ThrowBuild(tok.error) /\ UNCHANGED <<idToken, payload, signCalls>>
          ELSE IF pay.error # "ok"
          THEN /\ ThrowBuild(pay.error)
               /\ idToken' = tok.idToken
               /\ UNCHANGED <<payload, signCalls>>
          ELSE \E sig \in signDidJwtPayload(tok.idToken, responseOpts) :
                  /\ idToken' = tok.idToken
                  /\ signCalls' = signCalls + 1
                  /\ IF sig.error # "ok"
                     THEN ThrowBuild(sig.error) /\ payload' = pay.payload
                     ELSE /\ payload' = [ pay.payload EXCEPT !.id_token = sig.jwt ]
                          /\ bpc' = "Signed"
                          /\ UNCHANGED buildError
    /\ UNCHANGED <<builderVars, now, verifyOpts, verifyVars, vpVars, verifiedJwt, responseOpts,
                   response>>

\* Lines 446-453.
responseOf(p) ==
    [ returned |-> TRUE, jwt |-> p.id_token, state |-> p.state, nonce |-> p.nonce ]

\* Lines 440-444, up to the await of line 731, and lines 446-453 when the
\* assertion returns at once.
build_Presentations ==
    /\ bpc = "Signed"
    /\ \E r \in assertValidVerifiablePresentations(verifiedJwt.presentationDefinitions,
                                                   payload.vp_token) :
          IF r = "return"
          THEN /\ bpc' = "Built"
               /\ response' = responseOf(payload)
               /\ UNCHANGED <<buildError, matcherCalls>>
          ELSE IF r = "match"
          THEN /\ bpc' = "Matching"
               /\ matcherCalls' = matcherCalls + 1
               /\ UNCHANGED <<buildError, response>>
          ELSE ThrowBuild(r) /\ UNCHANGED <<response, matcherCalls>>
    /\ UNCHANGED <<builderVars, now, verifyOpts, verifyVars, vp_token, vpc, vpError, revocationCalls,
                   tasks, verifiedJwt, responseOpts, idToken, payload, signCalls>>

\* Lines 731-737 and 446-453: validatePayloadsAgainstDefinitions settles.
build_Matched ==
    /\ bpc = "Matching"
    /\ \E r \in validatePayloadsAgainstDefinitions(verifiedJwt.presentationDefinitions,
                                                   presentationPayloadsOf(payload.vp_token)) :
          IF r = "ok"
          THEN /\ bpc' = "Built"
               /\ response' = responseOf(payload)
               /\ UNCHANGED buildError
          ELSE ThrowBuild(r) /\ UNCHANGED response
    /\ UNCHANGED <<builderVars, now, verifyOpts, verifyVars, vpVars, verifiedJwt, responseOpts,
                   idToken, payload, signCalls>>

createJWTFromVerifiedRequest ==
    \/ build_Sign
    \/ build_Presentations
    \/ build_Matched

\* ---------------------------- createJWTFromVerifiedRequest, then the verifier

RedirectUri == "https://rp.example/cb"

ValidRequest ==
    [ present |-> TRUE, jwt |-> TRUE, redirect_uri |-> RedirectUri, nonce |-> "nonce-req",
      state |-> "state-req",
      subject_syntax_types_supported |->
          ListOf(<<"did:ethr", SubjectSyntaxTypesSupportedValues.JWK_THUMBPRINT>>),
      presentationDefinitions |-> ListOf(<<>>) ]

OneDefinition == [ definition |-> TRUE, location |-> PresentationLocation.VP_TOKEN ]

VerifiedRequests ==
    {NoVerifiedJwt, [ValidRequest EXCEPT !.jwt = FALSE],
     [ValidRequest EXCEPT !.subject_syntax_types_supported = UndefinedList],
     [ValidRequest EXCEPT !.redirect_uri = undefined]}
    \cup { [ValidRequest EXCEPT !.nonce = n, !.state = s, !.presentationDefinitions = d] :
             n \in {undefined, "nonce-req"}, s \in {undefined, "state-req"},
             d \in {UndefinedList, ListOf(<<>>), ListOf(<<OneDefinition>>)} }

ValidResponseOpts ==
    [ present |-> TRUE, signatureType |-> "internal", did |-> HolderDid,
      state |-> undefined, nonce |-> undefined, expiresIn |-> {}, vp |-> UndefinedList,
      presentationVerificationCallback |-> TRUE ]

PresentationsWithLocation ==
    [ location : {PresentationLocation.VP_TOKEN, PresentationLocation.ID_TOKEN},
      isString : BOOLEAN, status : {"valid"} ]

ExpiresIn == {{}, {0}, {1}, {-1}}

ResponseOptions ==
    {NoResponseOpts, [ValidResponseOpts EXCEPT !.did = undefined]}
    \cup { [ValidResponseOpts EXCEPT !.signatureType = t] :
             t \in {undefined, "external", "supplied", "other"} }
    \cup { [ValidResponseOpts EXCEPT !.state = s, !.nonce = n] :
             s \in {undefined, "state-opts"}, n \in {undefined, "nonce-opts"} }
    \cup { [ValidResponseOpts EXCEPT !.expiresIn = e] : e \in ExpiresIn }
    \cup { [ValidResponseOpts EXCEPT !.vp = ListOf(v)] :
             v \in SeqsUpTo(PresentationsWithLocation, MaxVps) }

\* A caller invokes createJWTFromVerifiedRequest(verifiedJwt, responseOpts).
build_Call ==
    /\ bpc = "idle"
    /\ \E r \in VerifiedRequests, o \in ResponseOptions :
          /\ verifiedJwt' = r
          /\ responseOpts' = o
    /\ bpc' = "Called"
    /\ UNCHANGED <<builderVars, now, verifyOpts, verifyVars, vpVars, buildError, idToken, payload,
                   response, signCalls>>

ResponseVerifyOptions ==
    [ present : {TRUE}, verification : {"internal"},
      checkLinkedDomain : {CheckLinkedDomain.NEVER}, verifyCallback : {FALSE},
      audience : {undefined, RedirectUri},
      presentationVerificationCallback : BOOLEAN,
      claims : {TRUE}, presentationDefinition : {undefined, "pd-1"},
      revocationOpts : {TRUE},
      revocationVerification : {RevocationVerification.NEVER,
                                RevocationVerification.ALWAYS},
      revocationVerificationCallback : {TRUE} ]

\* The relying party invokes verifyJWT(jwt, verifyOpts) on the token of the
\* response that was built.
response_verifyJWT ==
    /\ bpc = "Built"
    /\ pc = "idle"
    /\ \E o \in ResponseVerifyOptions : verifyOpts' = o
    /\ jwt' = response.jwt
    /\ pc' = "Received"
    /\ UNCHANGED <<builderVars, now, error, result, calls, vpVars, buildVars>>

\* The relying party invokes verifyVPs(payload, verifyOpts) on the payload of
\* that response.
response_verifyVPs ==
    /\ pc # "idle"
    /\ vpc = "idle"
    /\ vp_token' = payload.vp_token
    /\ vpc' = "Called"
    /\ UNCHANGED <<builderVars, now, verifyOpts, verifyVars, vpError, matcherCalls, revocationCalls,
                   tasks, buildVars>>


\* ------------------------------------------------------ Builder, helpers

SupportedVersion ==
    [ SIOPv2_ID1 |-> 70, JWT_VC_PRESENTATION_PROFILE_v1 |-> 71, SIOPv2_D11 |-> 110 ]

PropertyTarget ==
    [ AUTHORIZATION_REQUEST |-> "authorization-request", REQUEST_OBJECT |-> "request-object" ]

\* Line 330 and line 343: the messages of the errors thrown.
NoSupportedVersionError == "No supported version supplied/available"
ReplayRegistryError ==
    "Please enable the event emitter on the RP when using a replay registry"

\* PropertyTargets: undefined, one target or an array of targets.
NoTargets == [ defined |-> FALSE, of |-> {} ]
TargetsOf(S) == [ defined |-> TRUE, of |-> S ]

\* isTarget (./Opts): the targets name searchTarget.
isTarget(searchTarget, targets) == targets.defined /\ searchTarget \in targets.of

\* isTargetOrNoTargets (./Opts): no targets were given, or they name
\* searchTarget.
isTargetOrNoTargets(searchTarget, targets) ==
    IF ~targets.defined THEN TRUE ELSE isTarget(searchTarget, targets)

\* assignIfAuth (./Opts): propertyValue when the authorization request is a
\* target, none (the undefined of the property) otherwise.
assignIfAuth(propertyValue, targets, isDefaultTarget, none) ==
    IF (IF isDefaultTarget
        THEN isTargetOrNoTargets(PropertyTarget.AUTHORIZATION_REQUEST, targets)
        ELSE isTarget(PropertyTarget.AUTHORIZATION_REQUEST, targets))
    THEN propertyValue
    ELSE none

\* assignIfRequestObject (./Opts): the same for the request object.
assignIfRequestObject(propertyValue, targets, isDefaultTarget, none) ==
    IF (IF isDefaultTarget
        THEN isTargetOrNoTargets(PropertyTarget.REQUEST_OBJECT, targets)
        ELSE isTarget(PropertyTarget.REQUEST_OBJECT, targets))
    THEN propertyValue
    ELSE none

\* Lines 239-242: definitionProperties, and the vp_token member that is absent.
NoDefinitionProperties ==
    [ present |-> FALSE, presentation_definition |-> undefined,
      presentation_definition_uri |-> undefined ]

\* The claims member of a payload; id_token stands for its members other
\* than vp_token.
NoRequestClaims == [ defined |-> FALSE, id_token |-> FALSE, vp_token |-> NoDefinitionProperties ]

\* The clientMetadata argument with the targets line 179 stores in it.
NoClientMetadata == [ present |-> FALSE, targets |-> NoTargets ]

\* Lines 51-52: {} as _authorizationRequestPayload and _requestObjectPayload.
NoRequestPayload ==
    [ claims |-> NoRequestClaims, presentation_definition |-> undefined,
      presentation_definition_uri |-> undefined, registration |-> NoClientMetadata,
      client_metadata |-> NoClientMetadata ]

\* The RP that build has not returned.
NoRP == [ built |-> FALSE, sessionManager |-> undefined, eventEmitter |-> undefined ]

\* Lines 295-299.
initSupportedVersions(versions) == IF ~versions.defined THEN ListOf(<<>>) ELSE versions

\* Array.prototype.includes, line 303.
includes(list, v) == \E i \in DOMAIN list : list[i] = v

\* addSupportedVersion without the test of line 303.
addSupportedVersion_unconditional(versions, v) ==
    ListOf(Append(initSupportedVersions(versions).list, v))

\* Lines 301-307: supportedVersions after the call.
addSupportedVersion(versions, v) ==
    IF ~includes(initSupportedVersions(versions).list, v)
    THEN ListOf(Append(initSupportedVersions(versions).list, v))
    ELSE initSupportedVersions(versions)

\* Lines 309-315: supportedVersions after the call; a single version comes
\* as the array of it (line 310).
RECURSIVE withSupportedVersions(_, _)
withSupportedVersions(versions, vs) ==
    IF vs = <<>> THEN versions
    ELSE withSupportedVersions(addSupportedVersion(versions, Head(vs)), Tail(vs))

\* getSupportedRequestVersion that returns undefined where line 330 throws.
getSupportedRequestVersion_lenient(versions, requireVersion) ==
    IF ~versions.defined \/ Len(versions.list) = 0
    THEN [ error |-> "none", version |-> {} ]
    ELSE [ error |-> "none", version |-> {versions.list[1]} ]

\* Lines 327-335: the error thrown, or "none" with the version returned.
\* requireVersion is {} when the argument is omitted.
getSupportedRequestVersion(versions, requireVersion) ==
    IF ~versions.defined \/ Len(versions.list) = 0
    THEN (IF requireVersion # {FALSE}
          THEN [ error |-> NoSupportedVersionError, version |-> {} ]
          ELSE [ error |-> "none", version |-> {} ])
    ELSE [ error |-> "none", version |-> {versions.list[1]} ]

\* Lines 180 and 243: version < SupportedVersion.SIOPv2_D11; undefined is
\* below no number.
belowD11(version) == version # {} /\ NumberOf(version) < SupportedVersion.SIOPv2_D11

\* claimsWithVpToken without the spread of the existing claims.
claimsWithVpToken_noSpread(c, vpToken) ==
    [ defined |-> TRUE, id_token |-> FALSE, vp_token |-> vpToken ]

\* Lines 246-249 and 252-255: { ...(claims ? claims : {}), vp_token }.
claimsWithVpToken(c, vpToken) ==
    [ defined |-> TRUE, id_token |-> (c.defined /\ c.id_token), vp_token |-> vpToken ]

\* Lines 238-286, after getSupportedRequestVersion returned version: the two
\* payloads after the call.
withPresentationDefinition(arp, rop, version, definition, definitionUri, targets) ==
    LET definitionProperties ==
            [ present |-> TRUE, presentation_definition |-> definition,
              presentation_definition_uri |-> definitionUri ]
    IN
    IF belowD11(version)
    THEN [ authorizationRequestPayload |->
               IF isTarget(PropertyTarget.AUTHORIZATION_REQUEST, targets)
               THEN [ arp EXCEPT !.claims = claimsWithVpToken(arp.claims, definitionProperties) ]
               ELSE arp,
           requestObjectPayload |->
               IF isTargetOrNoTargets(PropertyTarget.REQUEST_OBJECT, targets)
               THEN [ rop EXCEPT !.claims = claimsWithVpToken(rop.claims, definitionProperties) ]
               ELSE rop ]
    ELSE [ authorizationRequestPayload |->
               [ arp EXCEPT
                   !.presentation_definition =
                       assignIfAuth(definition, targets, FALSE, undefined),
                   !.presentation_definition_uri =
                       assignIfAuth(definitionUri, targets, TRUE, undefined) ],
           requestObjectPayload |->
               [ rop EXCEPT
                   !.presentation_definition =
                       assignIfRequestObject(definition, targets, TRUE, undefined),
                   !.presentation_definition_uri =
                       assignIfRequestObject(definitionUri, targets, TRUE, undefined) ] ]

\* Lines 180-210, after getSupportedRequestVersion returned version.
withClientMetadata(arp, rop, version, metadata, targets) ==
    IF belowD11(version)
    THEN [ authorizationRequestPayload |->
               [ arp EXCEPT !.registration =
                                assignIfAuth(metadata, targets, FALSE, NoClientMetadata) ],
           requestObjectPayload |->
               [ rop EXCEPT !.registration =
                                assignIfRequestObject(metadata, targets, TRUE, NoClientMetadata) ] ]
    ELSE [ authorizationRequestPayload |->
               [ arp EXCEPT !.client_metadata =
                                assignIfAuth(metadata, targets, FALSE, NoClientMetadata) ],
           requestObjectPayload |->
               [ rop EXCEPT !.client_metadata =
                                assignIfRequestObject(metadata, targets, TRUE, NoClientMetadata) ] ]

\* new RP({ builder }) (./RP): the RP holds the builder's session manager and
\* event emitter.
newRP(manager, emitter) ==
    [ built |-> TRUE, sessionManager |-> manager, eventEmitter |-> emitter ]

\* build without the test of line 342.
build_unguarded(manager, emitter) == [ error |-> "none", rp |-> newRP(manager, emitter) ]

\* Lines 341-350: the error thrown, or "none" with the RP returned.
build(manager, emitter) ==
    IF Truthy(manager) /\ ~Truthy(emitter)
    THEN [ error |-> ReplayRegistryError, rp |-> NoRP ]
    ELSE [ error |-> "none", rp |-> newRP(manager, emitter) ]

\* ------------------------------------------------------ Builder, the calls

\* The longest history of versions passed to the builder.
MaxAdded == 3

Versions ==
    {SupportedVersion.SIOPv2_ID1, SupportedVersion.JWT_VC_PRESENTATION_PROFILE_v1,
     SupportedVersion.SIOPv2_D11}

OptionalVersions == {{}} \cup { {x} : x \in Versions }

\* No targets, one target, or the array of both.
Targets ==
    {NoTargets} \cup { TargetsOf(S) :
                         S \in (SUBSET {PropertyTarget.AUTHORIZATION_REQUEST,
                                        PropertyTarget.REQUEST_OBJECT}) \ {{}} }

\* The targets withClientMetadata is called with.
MetadataTargets == {NoTargets, TargetsOf({PropertyTarget.AUTHORIZATION_REQUEST})}

DefinitionOpts ==
    { [ definition |-> "pd-1", definitionUri |-> undefined ],
      [ definition |-> "pd-2", definitionUri |-> "https://rp.example/pd-2" ] }

\* Lines 337-339 and 57-61: newInstance(supportedVersion?); v is {} when the
\* argument is omitted.
Builder_newInstance(v) ==
    /\ ~constructed
    /\ constructed' = TRUE
    /\ supportedVersions' =
           IF v # {} THEN addSupportedVersion(supportedVersions, NumberOf(v))
           ELSE supportedVersions
    /\ added' = IF v # {} THEN Append(added, NumberOf(v)) ELSE added
    /\ lastCall' = "newInstance"
    /\ thrown' = "none"
    /\ UNCHANGED <<now, verifyOpts, verifyVars, vpVars, buildVars,
                   authorizationRequestPayload, requestObjectPayload, clientMetadata,
                   eventEmitter, sessionManager, returned, rp>>

\* Lines 301-307.
Builder_addSupportedVersion(v) ==
    /\ constructed
    /\ Len(added) < MaxAdded
    /\ supportedVersions' = addSupportedVersion(supportedVersions, v)
    /\ added' = Append(added, v)
    /\ lastCall' = "addSupportedVersion"
    /\ thrown' = "none"
    /\ UNCHANGED <<now, verifyOpts, verifyVars, vpVars, buildVars, constructed,
                   authorizationRequestPayload, requestObjectPayload, clientMetadata,
                   eventEmitter, sessionManager, returned, rp>>

\* Lines 309-315.
Builder_withSupportedVersions(vs) ==
    /\ constructed
    /\ Len(added) + Len(vs) <= MaxAdded
    /\ supportedVersions' = withSupportedVersions(supportedVersions, vs)
    /\ added' = added \o vs
    /\ lastCall' = "withSupportedVersions"
    /\ thrown' = "none"
    /\ UNCHANGED <<now, verifyOpts, verifyVars, vpVars, buildVars, constructed,
                   authorizationRequestPayload, requestObjectPayload, clientMetadata,
                   eventEmitter, sessionManager, returned, rp>>

\* Lines 327-335, called by the user of the builder.
Builder_getSupportedRequestVersion(requireVersion) ==
    /\ constructed
    /\ LET r == getSupportedRequestVersion(supportedVersions, requireVersion) IN
       /\ thrown' = r.error
       /\ returned' = IF r.error = "none" THEN r.version ELSE returned
    /\ lastCall' = "getSupportedRequestVersion"
    /\ UNCHANGED <<now, verifyOpts, verifyVars, vpVars, buildVars, constructed,
                   supportedVersions, authorizationRequestPayload, requestObjectPayload,
                   clientMetadata, eventEmitter, sessionManager, added, rp>>

\* Lines 237-288.
Builder_withPresentationDefinition(definitionOpts, targets) ==
    /\ constructed
    /\ LET r == getSupportedRequestVersion(supportedVersions, {})
           p == withPresentationDefinition(authorizationRequestPayload,
                                           requestObjectPayload, r.version,
                                           definitionOpts.definition,
                                           definitionOpts.definitionUri, targets)
       IN
       /\ thrown' = r.error
       /\ IF r.error # "none"
          THEN UNCHANGED <<authorizationRequestPayload, requestObjectPayload>>
          ELSE /\ authorizationRequestPayload' = p.authorizationRequestPayload
               /\ requestObjectPayload' = p.requestObjectPayload
    /\ lastCall' = "withPresentationDefinition"
    /\ UNCHANGED <<now, verifyOpts, verifyVars, vpVars, buildVars, constructed,
                   supportedVersions, clientMetadata, eventEmitter, sessionManager,
                   returned, added, rp>>

\* Lines 178-214.
Builder_withClientMetadata(targets) ==
    /\ constructed
    /\ LET metadata == [ present |-> TRUE, targets |-> targets ]
           r == getSupportedRequestVersion(supportedVersions, {})
           p == withClientMetadata(authorizationRequestPayload, requestObjectPayload,
                                   r.version, metadata, targets)
       IN
       /\ thrown' = r.error
       /\ IF r.error # "none"
          THEN UNCHANGED <<authorizationRequestPayload, requestObjectPayload,
                           clientMetadata>>
          ELSE /\ authorizationRequestPayload' = p.authorizationRequestPayload
               /\ requestObjectPayload' = p.requestObjectPayload
               /\ clientMetadata' = metadata
    /\ lastCall' = "withClientMetadata"
    /\ UNCHANGED <<now, verifyOpts, verifyVars, vpVars, buildVars, constructed,
                   supportedVersions, eventEmitter, sessionManager, returned, added, rp>>

\* Lines 317-320: eventEmitter ?? new EventEmitter().
Builder_withEventEmitter(emitter) ==
    /\ constructed
    /\ eventEmitter' = IF emitter = undefined THEN "emitter-new" ELSE emitter
    /\ lastCall' = "withEventEmitter"
    /\ thrown' = "none"
    /\ UNCHANGED <<now, verifyOpts, verifyVars, vpVars, buildVars, constructed,
                   supportedVersions, authorizationRequestPayload, requestObjectPayload,
                   clientMetadata, sessionManager, returned, added, rp>>

\* Lines 322-325.
Builder_withSessionManager(manager) ==
    /\ constructed
    /\ sessionManager' = manager
    /\ lastCall' = "withSessionManager"
    /\ thrown' = "none"
    /\ UNCHANGED <<now, verifyOpts, verifyVars, vpVars, buildVars, constructed,
                   supportedVersions, authorizationRequestPayload, requestObjectPayload,
                   clientMetadata, eventEmitter, returned, added, rp>>

\* Lines 341-350.
Builder_build ==
    /\ constructed
    /\ LET r == build(sessionManager, eventEmitter) IN
       /\ thrown' = r.error
       /\ rp' = IF r.error = "none" THEN r.rp ELSE rp
    /\ lastCall' = "build"
    /\ UNCHANGED <<now, verifyOpts, verifyVars, vpVars, buildVars, constructed,
                   supportedVersions, authorizationRequestPayload, requestObjectPayload,
                   clientMetadata, eventEmitter, sessionManager, returned, added>>

\* Lines 352-358: the getters hand out the payload objects themselves, and
\* the user of the builder puts an id_token member into claims of the one
\* of target.
Builder_payloadGetter(target) ==
    /\ constructed
    /\ IF target = PropertyTarget.AUTHORIZATION_REQUEST
       THEN /\ authorizationRequestPayload' =
                   [ authorizationRequestPayload EXCEPT
                       !.claims = [ @ EXCEPT !.defined = TRUE, !.id_token = TRUE ] ]
            /\ UNCHANGED requestObjectPayload
       ELSE /\ requestObjectPayload' =
                   [ requestObjectPayload EXCEPT
                       !.claims = [ @ EXCEPT !.defined = TRUE, !.id_token = TRUE ] ]
            /\ UNCHANGED authorizationRequestPayload
    /\ lastCall' = "payloadGetter"
    /\ thrown' = "none"
    /\ UNCHANGED <<now, verifyOpts, verifyVars, vpVars, buildVars, constructed,
                   supportedVersions, clientMetadata, eventEmitter, sessionManager,
                   returned, added, rp>>


\* ------------------------------------------------------ specifications

Init ==
    /\ now = 0
    /\ jwt = NoJwt
    /\ verifyOpts = NoVerifyOpts
    /\ pc = "idle"
    /\ error = "none"
    /\ result = NoResult
    /\ calls = <<>>
    /\ vp_token = NoVpToken
    /\ vpc = "idle"
    /\ vpError = "none"
    /\ matcherCalls = 0
    /\ revocationCalls = 0
    /\ tasks = <<>>
    /\ verifiedJwt = NoVerifiedJwt
    /\ responseOpts = NoResponseOpts
    /\ bpc = "idle"
    /\ buildError = "none"
    /\ idToken = NoClaims
    /\ payload = NoPayload
    /\ response = NoResponse
    /\ signCalls = 0
    /\ constructed = FALSE
    /\ supportedVersions = UndefinedList
    /\ authorizationRequestPayload = NoRequestPayload
    /\ requestObjectPayload = NoRequestPayload
    /\ clientMetadata = NoClientMetadata
    /\ eventEmitter = undefined
    /\ sessionManager = undefined
    /\ lastCall = "none"
    /\ thrown = "none"
    /\ returned = {}
    /\ added = <<>>
    /\ rp = NoRP

\* verifyJWT on any token under any options.
NextVerify == verifyJWT_Call \/ verifyJWT \/ Tick

SpecVerify == Init /\ [][NextVerify]_vars

\* verifyVPs on any payload under any options.
NextVPs == verifyVPs_Call \/ verifyVPs

SpecVPs == Init /\ [][NextVPs]_vars

\* A response is built and the relying party verifies it.
Next ==
    \/ build_Call
    \/ createJWTFromVerifiedRequest
    \/ response_verifyJWT
    \/ response_verifyVPs
    \/ verifyJWT
    \/ verifyVPs
    \/ Tick

Spec == Init /\ [][Next]_vars

\* The builder's versions and payloads, under any order of calls.
NextBuilder ==
    \/ \E v \in OptionalVersions : Builder_newInstance(v)
    \/ \E v \in Versions : Builder_addSupportedVersion(v)
    \/ \E vs \in SeqsUpTo(Versions, 2) : Builder_withSupportedVersions(vs)
    \/ \E requireVersion \in {{}, {TRUE}, {FALSE}} :
          Builder_getSupportedRequestVersion(requireVersion)
    \/ \E definitionOpts \in DefinitionOpts, targets \in Targets :
          Builder_withPresentationDefinition(definitionOpts, targets)
    \/ \E targets \in MetadataTargets : Builder_withClientMetadata(targets)
    \/ \E target \in {PropertyTarget.AUTHORIZATION_REQUEST, PropertyTarget.REQUEST_OBJECT} :
          Builder_payloadGetter(target)

SpecBuilder == Init /\ [][NextBuilder]_vars

\* The builder's session manager and event emitter, and build, under any
\* order of calls.
NextBuilderBuild ==
    \/ \E v \in OptionalVersions : Builder_newInstance(v)
    \/ \E emitter \in {undefined, "emitter-1"} : Builder_withEventEmitter(emitter)
    \/ \E manager \in {"session-manager-1", "session-manager-2"} :
          Builder_withSessionManager(manager)
    \/ Builder_build

SpecBuilderBuild == Init /\ [][NextBuilderBuild]_vars

\* ------------------------------------------------------ properties

Terminal == {"Verified", "Rejected"}

StageRank ==
    [ idle |-> 0, Received |-> 1, TokenPresent |-> 2, OptsValid |-> 3, ClaimsDecoded |-> 4,
      IssuerAccepted |-> 5, SignatureVerified |-> 6, LinkedDomainChecked |-> 7,
      ClaimsValidated |-> 8, Verified |-> 9 ]

\* C1: in every verifyJWT call the stages run strictly in sequence (each step
\* moves the call to the next stage or rejects it), and a failure is terminal:
\* once a stage has thrown, the call is rejected, stays rejected, no further
\* capability is invoked and no verified-response record is returned.
C1_FailureIsTerminal ==
    [][ /\ (error # "none" =>
               /\ pc = "Rejected"
               /\ UNCHANGED <<pc, error, calls, result>>)
        /\ (error' # "none" => pc' = "Rejected" /\ ~result'.returned)
        /\ (pc' = "Rejected" => error' # "none")
        /\ ((pc' # pc /\ pc' # "Rejected") => StageRank[pc'] = StageRank[pc] + 1)
        /\ (result'.returned => pc' = "Verified") ]_vars

\* C1 witness: the claims validation threw after all three capabilities ran.
C1_Witness ==
    /\ pc = "Rejected"
    /\ error = SIOPErrors.EXPIRED
    /\ Len(calls) = 3
    /\ ~result.returned

\* The exp claim of the token lies in the past.
expInPast == jwt.payload.exp # {} /\ NumberOf(jwt.payload.exp) < now

\* C4 as stated: every verifyJWT call on a token whose exp lies in the past
\* ends with the Expired error, whatever the signature and the other claims.
C4_ExpiredAlwaysExpiredError ==
    [][ (pc \notin Terminal /\ pc' \in Terminal /\ expInPast) =>
            (pc' = "Rejected" /\ error' = SIOPErrors.EXPIRED) ]_vars

\* C4 amended: every verifyJWT call on a token whose exp lies in the past is
\* rejected, and with the Expired error whenever the call reached the claims
\* validation and the nonce is present, whatever the audience.
C4_ExpiredRejected ==
    [][ (pc \notin Terminal /\ pc' \in Terminal /\ expInPast) =>
            /\ pc' = "Rejected"
            /\ ~result'.returned
            /\ ((pc = "LinkedDomainChecked" /\ Truthy(jwt.payload.nonce)) =>
                    error' = SIOPErrors.EXPIRED) ]_vars

\* C4 witness: a validly signed token with a nonce and a wrong audience was
\* rejected as expired.
C4_Witness ==
    /\ pc = "Rejected"
    /\ error = SIOPErrors.EXPIRED
    /\ expInPast
    /\ jwt.signatureValid
    /\ Truthy(jwt.payload.nonce)
    /\ Truthy(jwt.payload.aud) /\ Truthy(verifyOpts.audience)
    /\ jwt.payload.aud # verifyOpts.audience

\* The claims validation reaches the audience test of line 542.
audienceTested ==
    /\ pc = "LinkedDomainChecked"
    /\ Truthy(jwt.payload.nonce)
    /\ ~isExpired(jwt.payload.exp, now)

\* C5: in the claims validation, an audience present on one side only (in the
\* claims or in the options) fails with BAD_PARAMS (AudienceMismatch), two
\* present and unequal audiences fail with INVALID_AUDIENCE, and two absent or
\* two equal audiences pass.  Present means truthy.
C5_AudienceSymmetry ==
    [][ (audienceTested /\ pc' # pc) =>
          LET aud == jwt.payload.aud
              audience == verifyOpts.audience IN
          /\ (Truthy(aud) # Truthy(audience) =>
                  pc' = "Rejected" /\ error' = SIOPErrors.BAD_PARAMS)
          /\ ((Truthy(aud) /\ Truthy(audience) /\ aud # audience) =>
                  pc' = "Rejected" /\ error' = SIOPErrors.INVALID_AUDIENCE)
          /\ ((~Truthy(aud) /\ ~Truthy(audience)) => pc' = "ClaimsValidated")
          /\ ((Truthy(aud) /\ aud = audience) => pc' = "ClaimsValidated") ]_vars

\* C5 witness: the claims carry no audience, the verifier expects one, and
\* the call was rejected with BAD_PARAMS by the audience test.
C5_Witness ==
    /\ pc = "Rejected"
    /\ error = SIOPErrors.BAD_PARAMS
    /\ jwt.header
    /\ Len(calls) >= 2
    /\ ~Truthy(jwt.payload.aud)
    /\ Truthy(verifyOpts.audience)

\* N: the presentation definitions the verifier has configured.
numDefinitions ==
    IF verifyOpts.present /\ Truthy(verifyOpts.presentationDefinition) THEN 1 ELSE 0

\* M: the presentations of vp_token.
numPresentations == Len(vp_token.items)

\* Every element of vp_token carries a presentation.
wellFormedVpToken == Len(SelectSeq(vp_token.items, hasPresentation)) = Len(vp_token.items)

PresentationExchangeErrors ==
    { SIOPErrors.AUTH_REQUEST_EXPECTS_VP, SIOPErrors.AUTH_REQUEST_DOESNT_EXPECT_VP,
      SIOPErrors.REQUEST_CLAIMS_PRESENTATION_DEFINITION_NOT_VALID, DefinitionNotSatisfied }

RevocationStageErrors ==
    { RevocationCheckFailed, RevocationPolicyMisconfigured, TypeErrorVerification,
      TypeErrorRevocationOpts }

\* verifyVPs has called assertValidVerifiablePresentations.
presentationsAsserted ==
    /\ vpc \notin {"idle", "Called"}
    /\ ~(verifyOpts.present /\ ~verifyOpts.claims)

\* The presentation stage of verifyVPs ended with an error.
presentationsRejected == vpc = "Rejected" /\ vpError \notin RevocationStageErrors

\* The revocation stage of verifyVPs has run to its end.
revocationStageEnded ==
    \/ vpc = "VPsVerified"
    \/ (vpc = "Rejected" /\ vpError \in RevocationStageErrors)

\* C6 as stated: for N definitions and M presentations, N = M = 0 passes
\* without invoking the matcher, and N # M fails with a presentation-exchange
\* error without invoking the matcher.
C6_PresentationCount ==
    (presentationsAsserted /\ verifyOpts.present) =>
        /\ ((numDefinitions = 0 /\ numPresentations = 0) =>
                ~presentationsRejected /\ matcherCalls = 0)
        /\ (numDefinitions # numPresentations =>
                /\ presentationsRejected
                /\ vpError \in PresentationExchangeErrors
                /\ matcherCalls = 0)

\* C7 as stated: with no definition configured and one presentation supplied,
\* verifyVPs fails with AUTH_REQUEST_DOESNT_EXPECT_VP and the matcher is not
\* invoked; with a definition configured and no presentation supplied it
\* fails with AUTH_REQUEST_EXPECTS_VP.
C7_UnexpectedPresentation ==
    (presentationsAsserted /\ verifyOpts.present /\ wellFormedVpToken) =>
        /\ ((numDefinitions = 0 /\ numPresentations = 1) =>
                /\ presentationsRejected
                /\ vpError = SIOPErrors.AUTH_REQUEST_DOESNT_EXPECT_VP
                /\ matcherCalls = 0)
        /\ ((numDefinitions = 1 /\ numPresentations = 0) =>
                /\ presentationsRejected
                /\ vpError = SIOPErrors.AUTH_REQUEST_EXPECTS_VP)

\* C8 as stated: when vp_token is an array and the policy is not NEVER,
\* verifyVPs completes successfully only when a revocation check has been run
\* for every element and every one of them has completed successfully.
C8_AllRevocationChecksAwaited ==
    ( /\ vpc = "VPsVerified"
      /\ vp_token.kind = "array"
      /\ wellFormedVpToken
      /\ revocationVerificationOf(verifyOpts) # RevocationVerification.NEVER ) =>
        /\ DOMAIN tasks = DOMAIN vp_token.items
        /\ \A i \in DOMAIN tasks : tasks[i] = "ok"

\* C9 as stated: with policy ALWAYS and no revocation callback, the revocation
\* stage of a response with at least one presentation always fails with the
\* configuration error, for a single presentation and for an array.
C9_AlwaysWithoutCallbackFails ==
    ( /\ revocationStageEnded
      /\ verifyOpts.revocationOpts
      /\ verifyOpts.revocationVerification = RevocationVerification.ALWAYS
      /\ ~verifyOpts.revocationVerificationCallback
      /\ wellFormedVpToken
      /\ numPresentations >= 1 ) =>
        (vpc = "Rejected" /\ vpError = RevocationPolicyMisconfigured)

\* C10: with policy NEVER the revocation capability is never invoked, no
\* per-item check is started, and the revocation stage never fails.
C10_NeverSkipsRevocation ==
    ( /\ verifyOpts.present
      /\ verifyOpts.revocationOpts
      /\ verifyOpts.revocationVerification = RevocationVerification.NEVER ) =>
        /\ revocationCalls = 0
        /\ tasks = <<>>
        /\ vpc # "Revoking"
        /\ ~(vpc = "Rejected" /\ vpError \in RevocationStageErrors)

\* C10 witness: verifyVPs completed under NEVER on a response that carries a
\* revoked presentation.
C10_Witness ==
    /\ vpc = "VPsVerified"
    /\ verifyOpts.revocationOpts
    /\ verifyOpts.revocationVerification = RevocationVerification.NEVER
    /\ \E i \in DOMAIN vp_token.items :
          vp_token.items[i].presentation /\ vp_token.items[i].status = "revoked"
    /\ revocationCalls = 0


\* ------------------------------------------------- the verifier as a whole

\* C2: a verified-response record is returned only after the
\* presentation-validation stage and the revocation-check stage were both
\* executed and succeeded for that response.
C2_VerifiedAfterPresentationsAndRevocation ==
    result.returned => vpc = "VPsVerified"

\* The response was built from a valid request and valid options and its
\* token went through verifyJWT at the time it was built, with the request's
\* redirect URI as expected audience, the presentation-verification callback
\* configured, the linked-domain policy NEVER and the DID of the signer
\* resolved.
roundTrip ==
    /\ bpc = "Built"
    /\ pc \in Terminal
    /\ jwt = response.jwt
    /\ now = NumberOf(idToken.iat)
    /\ verifyOpts.audience = verifiedJwt.redirect_uri
    /\ verifyOpts.presentationVerificationCallback
    /\ verifyOpts.checkLinkedDomain = CheckLinkedDomain.NEVER
    /\ error # SIOPErrors.ERROR_RETRIEVING_DID_DOCUMENT

\* C3: createJWTFromVerifiedRequest followed by verifyJWT on the produced
\* token succeeds, and the issuer of the verified result is the DID that
\* signed.
C3_RoundTrip ==
    roundTrip => /\ pc = "Verified"
                 /\ result.returned
                 /\ result.issuer = responseOpts.did

\* ------------------------------------------------------ unset policies

\* No presentation of vp_token carries revocation evidence.
noRevocationEvidence ==
    \A i \in DOMAIN vp_token.items : vp_token.items[i].status = "none"

\* C11 as stated: with the revocation options unset, a response whose
\* presentations carry no revocation evidence passes the revocation stage.
C11_UnsetRevocationOptsPass ==
    ( /\ revocationStageEnded
      /\ verifyOpts.present
      /\ verifyOpts.verification # undefined
      /\ ~verifyOpts.revocationOpts
      /\ wellFormedVpToken
      /\ numPresentations >= 1
      /\ noRevocationEvidence ) => vpc = "VPsVerified"

isLinkedDomainCall(c) == c.fn = "validateLinkedDomainWithDid"

\* The calls of the linked-domain capability made so far.
linkedDomainCalls == SelectSeq(calls, isLinkedDomainCall)

LinkedDomainErrors == {LinkedDomainFailure, LinkedDomainPolicyMisconfigured}

\* C12: verifyJWT does not invoke the linked-domain capability under NEVER,
\* invokes it exactly once with IF_PRESENT when the policy is unset and
\* exactly once with the configured mode under IF_PRESENT or ALWAYS; the
\* invocation comes right after the signature verification succeeded and
\* before the claims validation, and its failure rejects the call.
C12_LinkedDomainDispatch ==
    [][ LET policy == verifyOpts.checkLinkedDomain
            invoked(mode) ==
                calls' = Append(calls, [fn |-> "validateLinkedDomainWithDid", mode |-> mode])
        IN
        /\ (linkedDomainCalls' # linkedDomainCalls =>
                /\ pc = "SignatureVerified"
                /\ linkedDomainCalls = <<>>
                /\ calls[Len(calls)].fn = "verifyDidJWT")
        /\ ((pc = "SignatureVerified" /\ pc' # pc) =>
                /\ policy = CheckLinkedDomain.NEVER =>
                       calls' = calls /\ pc' = "LinkedDomainChecked"
                /\ policy = undefined => invoked(CheckLinkedDomain.IF_PRESENT)
                /\ policy \in {CheckLinkedDomain.IF_PRESENT, CheckLinkedDomain.ALWAYS} =>
                       invoked(policy)
                /\ pc' \in {"LinkedDomainChecked", "Rejected"}
                /\ pc' = "Rejected" => error' \in LinkedDomainErrors /\ ~result'.returned)
        /\ (pc' = "ClaimsValidated" => pc = "LinkedDomainChecked")
        /\ Len(linkedDomainCalls') <= 1 ]_vars

\* C12 witness: with the policy unset the capability was invoked once with
\* IF_PRESENT after the signature verification, and its failure rejected the
\* call.
C12_Witness ==
    /\ pc = "Rejected"
    /\ error = LinkedDomainFailure
    /\ verifyOpts.checkLinkedDomain = undefined
    /\ Len(calls) = 3
    /\ calls[2].fn = "verifyDidJWT"
    /\ calls[3] = [fn |-> "validateLinkedDomainWithDid", mode |-> CheckLinkedDomain.IF_PRESENT]

\* ------------------------------------------ the presentation callback

\* verifyVPs has accepted the presentations of vp_token.
presentationsAccepted == vpc \in {"PresentationsValidated", "Revoking", "VPsVerified"}

\* C13 as stated: without a presentation-verification callback verifyJWT
\* never returns a verified response and fails with the callback-missing
\* error where it tests the callback, and the presentations of the response
\* are never accepted.
C13_CallbackRequired ==
    [][ (verifyOpts'.present /\ ~verifyOpts'.presentationVerificationCallback) =>
            /\ ~result'.returned
            /\ pc' # "Verified"
            /\ ((pc = "ClaimsValidated" /\ pc' # pc) =>
                    /\ pc' = "Rejected"
                    /\ error' = SIOPErrors.VERIFIABLE_PRESENTATION_VERIFICATION_FUNCTION_MISSING)
            /\ ((wellFormedVpToken' /\ numPresentations' >= 1) =>
                    ~presentationsAccepted') ]_vars

\* ------------------------------------------------------ the issuer claim

\* The token decodes to claims whose iss is not the self-issued identifier,
\* and the verify options are valid.
foreignIssuer ==
    /\ jwt.present /\ jwt.wellFormed /\ jwt.header
    /\ Truthy(jwt.payload.iss)
    /\ jwt.payload.iss # ResponseIss.SELF_ISSUED_V2
    /\ assertValidVerifyOpts(verifyOpts) = "ok"

\* C14: verifyJWT on a token whose iss is not the self-issued identifier
\* fails with NO_SELFISSUED_ISS, and in that call nothing but the parser was
\* invoked: neither the presentation-exchange validator nor the revocation
\* check.
C14_ForeignIssuerRejected ==
    (pc \in Terminal /\ foreignIssuer) =>
        /\ pc = "Rejected"
        /\ error = SIOPErrors.NO_SELFISSUED_ISS
        /\ ~result.returned
        /\ calls = <<[fn |-> "parseJWT", mode |-> undefined]>>
        /\ matcherCalls = 0
        /\ revocationCalls = 0
        /\ tasks = <<>>

\* C14 witness: a validly signed token of a foreign issuer was rejected.
C14_Witness ==
    /\ pc = "Rejected"
    /\ foreignIssuer
    /\ jwt.signatureValid
    /\ error = SIOPErrors.NO_SELFISSUED_ISS

\* ------------------------------------------------ createJWTFromVerifiedRequest

\* The response options are absent, or carry no signature material, or
\* signature material of no recognised kind, or no holder DID.
invalidResponseOpts ==
    \/ ~responseOpts.present
    \/ responseOpts.signatureType \notin {"internal", "external", "supplied"}
    \/ ~Truthy(responseOpts.did)

\* C15: createJWTFromVerifiedRequest on such response options fails with
\* BAD_PARAMS or SIGNATURE_OBJECT_TYPE_NOT_SET, the signing capability is
\* never invoked and no response is returned.
C15_BuildPreconditions ==
    (bpc \notin {"idle", "Called"} /\ invalidResponseOpts) =>
        /\ bpc = "Rejected"
        /\ buildError \in {SIOPErrors.BAD_PARAMS, SIOPErrors.SIGNATURE_OBJECT_TYPE_NOT_SET}
        /\ signCalls = 0
        /\ ~response.returned
        /\ ~payload.id_token.present

\* C15 witness: options with signature material of an unrecognised kind were
\* rejected.
C15_Witness ==
    /\ bpc = "Rejected"
    /\ responseOpts.present
    /\ responseOpts.signatureType = "other"
    /\ buildError = SIOPErrors.SIGNATURE_OBJECT_TYPE_NOT_SET
    /\ signCalls = 0

\* The request advertises JWK-thumbprint subjects, and the response options
\* are valid but for the holder DID, which they do not supply.
thumbprintSubjectCase ==
    /\ verifiedJwt.present /\ verifiedJwt.jwt
    /\ verifiedJwt.presentationDefinitions.defined
    /\ verifiedJwt.subject_syntax_types_supported.defined
    /\ \E i \in DOMAIN verifiedJwt.subject_syntax_types_supported.list :
          verifiedJwt.subject_syntax_types_supported.list[i]
              = SubjectSyntaxTypesSupportedValues.JWK_THUMBPRINT
    /\ responseOpts.present
    /\ responseOpts.signatureType = "internal"
    /\ ~Truthy(responseOpts.did)

\* C16 as stated: in that case the build succeeds with an identity token
\* whose sub is the JWK thumbprint of the signing key and which carries the
\* public JWK as sub_jwk; and the sub of every identity token built is set.
C16_ThumbprintSubject ==
    /\ (bpc \notin {"idle", "Called"} /\ thumbprintSubjectCase) =>
          /\ bpc # "Rejected"
          /\ idToken.sub = createThumbprintAndJWK(responseOpts).thumbprint
          /\ idToken.sub_jwk = createThumbprintAndJWK(responseOpts).subJwk
          /\ Truthy(idToken.sub_jwk)
    /\ bpc \in {"Signed", "Matching", "Built"} => Truthy(idToken.sub)

\* An identity token and a payload were built.
tokenBuilt == bpc \in {"Signed", "Matching", "Built"}

\* C17 as stated: the state is the state of the options when set and else
\* derived from the state of the request; the nonce is the nonce of the
\* request when present, else the nonce of the options, else derived from
\* that state; the nonce is never empty, and the state of the outer payload
\* is the state the nonce fallback used.
C17_StateAndNonce ==
    tokenBuilt =>
        /\ Truthy(responseOpts.state) => payload.state = responseOpts.state
        /\ (~Truthy(responseOpts.state) /\ Truthy(verifiedJwt.state)) =>
               payload.state = verifiedJwt.state
        /\ Truthy(payload.state)
        /\ Truthy(verifiedJwt.nonce) => idToken.nonce = verifiedJwt.nonce
        /\ (~Truthy(verifiedJwt.nonce) /\ Truthy(responseOpts.nonce)) =>
               idToken.nonce = responseOpts.nonce
        /\ (~Truthy(verifiedJwt.nonce) /\ ~Truthy(responseOpts.nonce)) =>
               idToken.nonce = getNonce(payload.state)
        /\ Truthy(idToken.nonce)

\* C18 as stated: every identity token built has exp > iat, with
\* exp = iat + expiresIn for a supplied expiresIn and exp = iat + 600
\* otherwise.  (For a supplied expiresIn that is 0 or negative the two
\* requirements exclude each other; exp > iat is the one kept here.)
C18_ExpAfterIat ==
    tokenBuilt =>
        LET iat == NumberOf(idToken.iat)
            exp == NumberOf(idToken.exp) IN
        /\ idToken.iat # {} /\ idToken.exp # {}
        /\ exp > iat
        /\ responseOpts.expiresIn = {} => exp = iat + DefaultExpiresIn
        /\ (responseOpts.expiresIn # {} /\ NumberOf(responseOpts.expiresIn) > 0) =>
               exp = iat + NumberOf(responseOpts.expiresIn)

\* The presentations of the response options destined for the identity token.
idTokenPresentations == SelectSeq(responseOpts.vp.list, isIdTokenLocation)

\* C19 as stated: the identity token carries one descriptor per presentation
\* destined for the identity token (none when there is no such
\* presentation), of format JWT_VP for a compact string and LDP_VP for a
\* structured object, each with path '$'.
C19_DescriptorPerPresentation ==
    tokenBuilt =>
        /\ Len(idToken.descriptor_map) = Len(idTokenPresentations)
        /\ \A i \in DOMAIN idToken.descriptor_map :
              /\ idToken.descriptor_map[i].path = "$"
              /\ i \in DOMAIN idTokenPresentations =>
                    idToken.descriptor_map[i].format =
                        IF idTokenPresentations[i].isString
                        THEN VerifiablePresentationTypeFormat.JWT_VP
                        ELSE VerifiablePresentationTypeFormat.LDP_VP

\* The presentations of the response options destined for the response body.
vpTokenPresentations == SelectSeq(responseOpts.vp.list, isVpTokenLocation)

\* The errors thrown while the outer payload is assembled.
PayloadConstructionErrors ==
    { TypeErrorLocation, SIOPErrors.REQUEST_CLAIMS_PRESENTATION_DEFINITION_NOT_VALID }

\* C20 as stated: vp_token of the outer payload holds exactly the supplied
\* presentations located in the response body; assembling the payload
\* succeeds with no presentation (absent or empty list) and with one
\* response-body presentation, and fails with more than one.
C20_VpTokenFromResponseBody ==
    /\ tokenBuilt =>
          /\ Len(payload.vp_token.items) = Len(vpTokenPresentations)
          /\ \A i \in DOMAIN payload.vp_token.items :
                payload.vp_token.items[i] = asPayload(vpTokenPresentations[i])
    /\ (bpc = "Rejected" /\ Len(vpTokenPresentations) <= 1) =>
          buildError \notin PayloadConstructionErrors
    /\ Len(vpTokenPresentations) > 1 =>
          /\ ~tokenBuilt
          /\ (bpc = "Rejected" /\ idToken # NoClaims) =>
                buildError = SIOPErrors.REQUEST_CLAIMS_PRESENTATION_DEFINITION_NOT_VALID

\* ------------------------------------------------ the build's re-validation

\* The number of presentations the caller supplied, whatever their location.
suppliedPresentations ==
    IF responseOpts.vp.defined THEN Len(responseOpts.vp.list) ELSE 0

\* The number of presentation definitions the request declares.
declaredDefinitions ==
    IF verifiedJwt.presentationDefinitions.defined
    THEN Len(verifiedJwt.presentationDefinitions.list)
    ELSE 0

\* C21: createJWTFromVerifiedRequest returns a response only when the
\* presentations supplied, whatever their location, are consistent with the
\* definitions the request declares: as many presentations as definitions
\* (none for none), and the constraint matcher was run on them when there are
\* any.
C21_BuildRevalidatesPresentations ==
    response.returned =>
        /\ suppliedPresentations = declaredDefinitions
        /\ (suppliedPresentations > 0 => matcherCalls > 0)

\* C22: the record a successful build returns reports the state of the outer
\* payload and the nonce claim of the signed identity token, and its nonce is
\* never absent.
C22_ReportsStateAndNonce ==
    response.returned =>
        /\ response.state = payload.state
        /\ response.nonce = idToken.nonce
        /\ Truthy(response.nonce)

\* ------------------------------------------------ the error values

\* The error values reported for a configuration fault: what the assertions
\* of the options throw, on build and on verify, and the error of the missing
\* presentation-verification callback.
ConfigurationErrors ==
    ({ assertValidResponseOpts(o) : o \in ResponseOptions }
        \cup { assertValidVerifyOpts(o) : o \in VerifyOptions }
        \cup { SIOPErrors.VERIFIABLE_PRESENTATION_VERIFICATION_FUNCTION_MISSING })
    \ {"ok"}

\* verifyJWT rejects the response in this step because of what the response
\* holds: its header and issuer (line 471) or its nonce, expiry and audience
\* (line 484).
responseFoundInvalid ==
    /\ pc \in {"ClaimsDecoded", "LinkedDomainChecked"}
    /\ pc' = "Rejected"

\* C23: the error value reported for an invalid response (missing header,
\* wrong issuer, missing nonce, expired, audience presence mismatch, invalid
\* audience) is never one that is also reported for a configuration fault.
C23_ConfigurationErrorsDistinct ==
    [][responseFoundInvalid => error' \notin ConfigurationErrors]_vars

\* ------------------------------------------------ the order of the stages

\* The signature-verification capability was invoked in this call.
signatureVerificationInvoked ==
    \E i \in DOMAIN calls : calls[i].fn = "verifyDidJWT"

\* C24: verifyJWT checks the issuer claim only after the signature was
\* verified: a rejection for the issuer comes after verifyDidJWT was invoked,
\* and a token of a foreign issuer whose signature is invalid is rejected by
\* the signature stage, with verifyDidJWT invoked for it.
C24_SignatureBeforeIssuer ==
    /\ (pc = "Rejected" /\ error = SIOPErrors.NO_SELFISSUED_ISS) =>
            signatureVerificationInvoked
    /\ (pc \in Terminal /\ foreignIssuer /\ ~jwt.signatureValid) =>
            /\ signatureVerificationInvoked
            /\ error \in {SIOPErrors.ERROR_VERIFYING_SIGNATURE,
                          SIOPErrors.ERROR_RETRIEVING_DID_DOCUMENT}

\* ------------------------------------------------------ Builder, properties

\* The definition properties withPresentationDefinition places for its
\* argument.
placedProperties(definitionOpts) ==
    [ present |-> TRUE, presentation_definition |-> definitionOpts.definition,
      presentation_definition_uri |-> definitionOpts.definitionUri ]

\* The payload before and after has the definition under claims.vp_token,
\* the other members of claims as they were, and the top-level fields as they
\* were.
placedUnderClaims(before, after, definitionOpts) ==
    /\ after.claims.defined
    /\ after.claims.vp_token = placedProperties(definitionOpts)
    /\ after.claims.id_token = before.claims.id_token

\* The payload after has the definition in its top-level fields.
placedAtTopLevel(after, definitionOpts) ==
    /\ after.presentation_definition = definitionOpts.definition
    /\ after.presentation_definition_uri = definitionOpts.definitionUri

topLevelUnchanged(before, after) ==
    /\ after.presentation_definition = before.presentation_definition
    /\ after.presentation_definition_uri = before.presentation_definition_uri

\* C25: withPresentationDefinition on a builder whose first added version is
\* below SIOPv2_D11 places the definition and its URI under claims.vp_token of
\* the targeted payloads, keeps the other members of claims and leaves the
\* top-level presentation_definition fields of both payloads unchanged;
\* otherwise it assigns them to the top-level fields of the targeted payloads
\* and leaves claims of both payloads unchanged.  Adding versions afterwards
\* changes neither payload.
C25_PlacementByVersion ==
    [][ /\ \A definitionOpts \in DefinitionOpts, targets \in Targets :
              (lastCall' = "withPresentationDefinition" /\ added # <<>>
                  /\ Builder_withPresentationDefinition(definitionOpts, targets)) =>
                  IF added[1] < SupportedVersion.SIOPv2_D11
                  THEN /\ isTarget(PropertyTarget.AUTHORIZATION_REQUEST, targets) =>
                              placedUnderClaims(authorizationRequestPayload,
                                                authorizationRequestPayload', definitionOpts)
                       /\ isTargetOrNoTargets(PropertyTarget.REQUEST_OBJECT, targets) =>
                              placedUnderClaims(requestObjectPayload,
                                                requestObjectPayload', definitionOpts)
                       /\ topLevelUnchanged(authorizationRequestPayload,
                                            authorizationRequestPayload')
                       /\ topLevelUnchanged(requestObjectPayload, requestObjectPayload')
                  ELSE /\ isTarget(PropertyTarget.AUTHORIZATION_REQUEST, targets) =>
                              placedAtTopLevel(authorizationRequestPayload', definitionOpts)
                       /\ isTargetOrNoTargets(PropertyTarget.REQUEST_OBJECT, targets) =>
                              placedAtTopLevel(requestObjectPayload', definitionOpts)
                       /\ authorizationRequestPayload'.claims =
                              authorizationRequestPayload.claims
                       /\ requestObjectPayload'.claims = requestObjectPayload.claims
        /\ (lastCall' \in {"addSupportedVersion", "withSupportedVersions"}) =>
              UNCHANGED <<authorizationRequestPayload, requestObjectPayload>>
      ]_vars

\* C25 witness: on a builder of a version below SIOPv2_D11 the definition was
\* placed under claims.vp_token of a payload whose claims had another member,
\* which is still there.
C25_Witness ==
    /\ lastCall = "withPresentationDefinition"
    /\ thrown = "none"
    /\ added # <<>>
    /\ added[1] < SupportedVersion.SIOPv2_D11
    /\ authorizationRequestPayload.claims.vp_token.present
    /\ authorizationRequestPayload.claims.id_token
    /\ authorizationRequestPayload.presentation_definition = undefined

\* The versions of s in the order of their first occurrence.
RECURSIVE firstOccurrences(_, _)
firstOccurrences(s, seen) ==
    IF s = <<>> THEN <<>>
    ELSE IF Head(s) \in seen THEN firstOccurrences(Tail(s), seen)
    ELSE <<Head(s)>> \o firstOccurrences(Tail(s), seen \cup {Head(s)})

noDuplicates(list) ==
    \A i, j \in DOMAIN list : list[i] = list[j] => i = j

\* supportedVersions holds what was passed to the builder, once each, in the
\* order of first insertion, and the first of them is the request version.
versionsInInsertionOrder ==
    /\ added = <<>> => ~supportedVersions.defined
    /\ added # <<>> =>
          /\ supportedVersions.defined
          /\ noDuplicates(supportedVersions.list)
          /\ supportedVersions.list = firstOccurrences(added, {})
          /\ getSupportedRequestVersion(supportedVersions, {}) =
                 [ error |-> "none", version |-> {added[1]} ]
    /\ (lastCall = "getSupportedRequestVersion" /\ thrown = "none" /\ added # <<>>) =>
          returned = {added[1]}

\* C26: after any sequence of newInstance, addSupportedVersion and
\* withSupportedVersions, supportedVersions has no duplicate and keeps the
\* order of first insertion, getSupportedRequestVersion returns the first
\* version ever added, and adding a version that is present leaves the list
\* unchanged.
C26_VersionsKeepInsertionOrder ==
    [][ /\ versionsInInsertionOrder'
        /\ \A v \in Versions :
              (lastCall' = "addSupportedVersion" /\ supportedVersions.defined
                  /\ includes(supportedVersions.list, v)
                  /\ Builder_addSupportedVersion(v)) =>
                  supportedVersions' = supportedVersions ]_vars

\* C26 witness: a version was added, then another, then the first again, and
\* the list holds the two in that order.
C26_Witness ==
    /\ lastCall = "addSupportedVersion"
    /\ Len(added) = 3
    /\ added[1] = added[3]
    /\ added[1] # added[2]
    /\ supportedVersions.list = <<added[1], added[2]>>

\* No supported version has been added to the builder.
noSupportedVersion == ~supportedVersions.defined \/ Len(supportedVersions.list) = 0

\* C27: while no supported version has been added, withPresentationDefinition
\* and withClientMetadata throw 'No supported version supplied/available' and
\* leave the authorization-request payload and the request-object payload
\* unchanged, and getSupportedRequestVersion(false) returns undefined without
\* throwing.
C27_NoVersionThrows ==
    [][ /\ \A definitionOpts \in DefinitionOpts, targets \in Targets :
              (noSupportedVersion /\ lastCall' = "withPresentationDefinition"
                  /\ Builder_withPresentationDefinition(definitionOpts, targets)) =>
                  /\ thrown' = NoSupportedVersionError
                  /\ UNCHANGED <<authorizationRequestPayload, requestObjectPayload>>
        /\ \A targets \in MetadataTargets :
              (noSupportedVersion /\ lastCall' = "withClientMetadata"
                  /\ Builder_withClientMetadata(targets)) =>
                  /\ thrown' = NoSupportedVersionError
                  /\ UNCHANGED <<authorizationRequestPayload, requestObjectPayload>>
        /\ (noSupportedVersion /\ Builder_getSupportedRequestVersion({FALSE})) =>
              /\ thrown' = "none"
              /\ returned' = {}
      ]_vars

\* C27 witness: withPresentationDefinition was called on a builder without a
\* version, whose payload had been given a claims member, and threw.
C27_Witness ==
    /\ constructed
    /\ noSupportedVersion
    /\ lastCall = "withPresentationDefinition"
    /\ thrown = NoSupportedVersionError
    /\ requestObjectPayload.claims.id_token
    /\ ~requestObjectPayload.claims.vp_token.present

\* An RP that has a session manager and no event emitter.
sessionWithoutEmitter(r) ==
    r.built /\ Truthy(r.sessionManager) /\ ~Truthy(r.eventEmitter)

\* C28: build throws when a session manager is set and no event emitter is
\* set at the time of the call, and returns no RP then; otherwise it returns
\* an RP made from the builder.  No RP returned has a session manager without
\* an event emitter, whatever the order of withSessionManager and
\* withEventEmitter before.
C28_SessionManagerNeedsEmitter ==
    [][ Builder_build =>
            /\ IF Truthy(sessionManager) /\ ~Truthy(eventEmitter)
               THEN thrown' = ReplayRegistryError /\ rp' = rp
               ELSE /\ thrown' = "none"
                    /\ rp' = [ built |-> TRUE, sessionManager |-> sessionManager,
                               eventEmitter |-> eventEmitter ]
            /\ ~sessionWithoutEmitter(rp') ]_vars

\* C28 witness: build was called with a session manager and no event emitter
\* and threw, and no RP was returned.
C28_Witness ==
    /\ lastCall = "build"
    /\ Truthy(sessionManager)
    /\ ~Truthy(eventEmitter)
    /\ thrown = ReplayRegistryError
    /\ ~rp.built

====
